---- MODULE Spec2Model ----
(***************************************************************************)
(* A model of pyo3's error bridge (src/err.rs): the PyErr record, its     *)
(* constructors, fetch / restore / normalize / clone_ref / print, and the *)
(* interpreter's global error indicator they synchronise with.            *)
(*                                                                         *)
(* Object handles are self-describing values.  A handle carries the kind  *)
(* of object it points at, its class, the text it holds and the serial    *)
(* number of the allocation that created it (0 for objects that exist     *)
(* before the program starts), so two separately allocated objects with   *)
(* the same content are different handles.                                *)
(***************************************************************************)
EXTENDS Integers, Sequences, FiniteSets, TLC

(***************************************************************************)
(* Bounds of the model.                                                    *)
(***************************************************************************)
\* The number of interpreter objects the program may allocate in one run.
MaxAlloc == 2

(***************************************************************************)
(* Interpreter objects.                                                    *)
(***************************************************************************)
NULL == [kind |-> "null", cls |-> "", text |-> "", id |-> 0]

Py_None == [kind |-> "none", cls |-> "NoneType", text |-> "", id |-> 0]

TypeObject(name) == [kind |-> "type", cls |-> name, text |-> "", id |-> 0]

PyString(t, i) == [kind |-> "str", cls |-> "str", text |-> t, id |-> i]

\* A one-element tuple holding the text t.
PyTuple(t, i) == [kind |-> "tuple", cls |-> "tuple", text |-> t, id |-> i]

\* An exception instance of class c whose constructor arguments read t.
ExcInstance(c, t, i) == [kind |-> "inst", cls |-> c, text |-> t, id |-> i]

\* A list holding the names whose text reads t.
PyList(t, i) == [kind |-> "list", cls |-> "list", text |-> t, id |-> i]

PyTraceBack(i) == [kind |-> "tb", cls |-> "traceback", text |-> "", id |-> i]

\* The class hierarchy below BaseException; "int" stands for the classes
\* that are not exception classes.
ParentClass ==
  [c \in {"BaseException", "SystemError", "TypeError", "OSError",
          "FileNotFoundError", "UnicodeDecodeError", "PanicException", "int",
          "ValueError", "ConnectionError", "BrokenPipeError",
          "ConnectionRefusedError", "ConnectionAbortedError",
          "ConnectionResetError", "InterruptedError", "BlockingIOError",
          "TimeoutError", "AttributeError"} |->
     CASE c = "BaseException"      -> "object"
       [] c = "SystemError"        -> "BaseException"
       [] c = "TypeError"          -> "BaseException"
       [] c = "OSError"            -> "BaseException"
       [] c = "FileNotFoundError"  -> "OSError"
       [] c = "UnicodeDecodeError" -> "BaseException"
       [] c = "PanicException"     -> "BaseException"
       [] c = "int"                -> "object"
       [] c = "ValueError"         -> "BaseException"
       [] c = "AttributeError"     -> "BaseException"
       [] c = "ConnectionError"    -> "OSError"
       [] c \in {"BrokenPipeError", "ConnectionRefusedError",
                 "ConnectionAbortedError", "ConnectionResetError"}
                                   -> "ConnectionError"
       [] c \in {"InterruptedError", "BlockingIOError", "TimeoutError"}
                                   -> "OSError"]

RECURSIVE IsSubclass(_, _)
IsSubclass(c, base) ==
  IF c = base THEN TRUE
  ELSE IF c \notin DOMAIN ParentClass THEN FALSE
  ELSE IsSubclass(ParentClass[c], base)

PyExceptionClass_Check(p) ==
  p.kind = "type" /\ IsSubclass(p.cls, "BaseException")

PyExceptionInstance_Check(p) == p.kind = "inst"

PyExceptionInstance_Class(p) == TypeObject(p.cls)

\* Matching of a record's type against one candidate class.
PyErr_GivenExceptionMatches(given, exc) ==
  IF PyExceptionClass_Check(given) /\ PyExceptionClass_Check(exc)
  THEN IsSubclass(given.cls, exc.cls)
  ELSE given = exc

\* Decoding an object as text succeeds for str objects only.
extract_String(p) ==
  IF p.kind = "str" THEN [ok |-> TRUE, text |-> p.text]
  ELSE [ok |-> FALSE, text |-> ""]

(***************************************************************************)
(* The interpreter state a call works on: the global error indicator      *)
(* (slot), the allocation counter (next), and the log of interpreter      *)
(* calls and stderr lines the running operation has made (calls).         *)
(***************************************************************************)
EmptySlot == [ptype |-> NULL, pvalue |-> NULL, ptraceback |-> NULL]

\* PyErr_Fetch: hands out the pending triple and clears the indicator.
PyErr_Fetch(h) ==
  [h |-> [h EXCEPT !.slot = EmptySlot, !.calls = Append(@, "PyErr_Fetch")],
   ptype |-> h.slot.ptype, pvalue |-> h.slot.pvalue,
   ptraceback |-> h.slot.ptraceback]

\* PyErr_Restore: takes the three handles and sets the indicator to them.
PyErr_Restore(h, ptype, pvalue, ptraceback) ==
  [h EXCEPT !.slot = [ptype |-> ptype, pvalue |-> pvalue,
                      ptraceback |-> ptraceback],
            !.calls = Append(@, "PyErr_Restore")]

\* PyErr_PrintEx: prints the pending error and clears the indicator.
PyErr_PrintEx(h, set_sys_last_vars) ==
  [h EXCEPT !.slot = EmptySlot,
            !.calls = Append(@, IF set_sys_last_vars = 1 THEN "PyErr_PrintEx(1)"
                                ELSE "PyErr_PrintEx(0)")]

eprintln(h, line) == [h EXCEPT !.calls = Append(@, line)]

\* Whether the constructor of class c accepts the arguments that value
\* stands for: UnicodeDecodeError takes exactly five arguments.
ConstructorAccepts(c, value) == c # "UnicodeDecodeError"

\* The text of the arguments an instance is created from.
ArgumentText(value) ==
  IF value.kind \in {"str", "tuple"} THEN value.text ELSE ""

\* PyErr_NormalizeException on the in/out triple.  The value becomes an
\* instance of the type unless the type is no exception class; a failing
\* constructor leaves its own error in the indicator, which is fetched
\* (clearing the indicator) and normalized in place of the original.
PyErr_NormalizeException(h0, ptype, pvalue, ptraceback) ==
  LET h == [h0 EXCEPT !.calls = Append(@, "PyErr_NormalizeException")]
      value == IF pvalue = NULL THEN Py_None ELSE pvalue
  IN IF ~PyExceptionClass_Check(ptype)
     THEN [h |-> h, ptype |-> ptype, pvalue |-> value, ptraceback |-> ptraceback]
     ELSE IF PyExceptionInstance_Check(value) /\ IsSubclass(value.cls, ptype.cls)
     THEN [h |-> h, ptype |-> PyExceptionInstance_Class(value),
           pvalue |-> value, ptraceback |-> ptraceback]
     ELSE IF ConstructorAccepts(ptype.cls, value)
     THEN [h |-> [h EXCEPT !.next = @ + 1], ptype |-> ptype,
           pvalue |-> ExcInstance(ptype.cls, ArgumentText(value), h.next + 1),
           ptraceback |-> ptraceback]
     ELSE [h |-> [h EXCEPT !.next = @ + 2, !.slot = EmptySlot],
           ptype |-> TypeObject("TypeError"),
           pvalue |-> ExcInstance("TypeError", "function takes exactly 5 arguments", h.next + 2),
           ptraceback |-> ptraceback]

(***************************************************************************)
(* Rust values boxed inside a lazy PyErrValue, and their conversions.      *)
(***************************************************************************)
NoBox == [rs |-> "", text |-> ""]

\* A &'static str / String.
RustStr(t) == [rs |-> "str", text |-> t]

\* A one-element Rust tuple (t,).
RustTuple(t) == [rs |-> "tuple", text |-> t]

\* A std::io::Error whose Display output is t.
IoError(t) == [rs |-> "io::Error", text |-> t]

\* A value of a type of the program's own whose conversion panics.
PanickingBox == [rs |-> "panics", text |-> "conversion failed"]

\* ToPyObject::to_object: a new interpreter object holding the Rust value;
\* ok is FALSE when the conversion panics instead.
to_object(boxed, h) ==
  LET i == h.next + 1
  IN IF boxed.rs = "panics"
     THEN [h |-> [h EXCEPT !.calls = Append(@, "to_object")], ob |-> NULL,
           ok |-> FALSE]
     ELSE [h |-> [h EXCEPT !.next = i, !.calls = Append(@, "to_object")],
           ob |-> IF boxed.rs = "tuple" THEN PyTuple(boxed.text, i)
                  ELSE PyString(boxed.text, i),
           ok |-> TRUE]

\* Display::to_string of a boxed error.
to_string(boxed) == boxed.text

\* PyErrArguments::arguments: self.to_string().to_object(py).
arguments(boxed, h) ==
  LET i == h.next + 1
  IN IF boxed.rs = "panics"
     THEN [h |-> [h EXCEPT !.calls = Append(@, "arguments")], ob |-> NULL,
           ok |-> FALSE]
     ELSE [h |-> [h EXCEPT !.next = i, !.calls = Append(@, "arguments")],
           ob |-> PyString(to_string(boxed), i), ok |-> TRUE]

(***************************************************************************)
(* PyErrValue and PyErr.                                                   *)
(***************************************************************************)
PyErrValue_None == [tag |-> "None", ob |-> NULL, boxed |-> NoBox]

PyErrValue_Value(ob) == [tag |-> "Value", ob |-> ob, boxed |-> NoBox]

PyErrValue_ToArgs(boxed) == [tag |-> "ToArgs", ob |-> NULL, boxed |-> boxed]

PyErrValue_ToObject(boxed) == [tag |-> "ToObject", ob |-> NULL, boxed |-> boxed]

PyErr(ptype, pvalue, ptraceback) ==
  [ptype |-> ptype, pvalue |-> pvalue, ptraceback |-> ptraceback]

PanicException_type_object == TypeObject("PanicException")

\* What an operation hands back: the interpreter state it leaves, how it
\* left (return, unwind, panic), the record it returned (a sequence of
\* length 0 or 1) and the message an unwind carries.
Returned(h, ret) == [h |-> h, exit |-> "return", ret |-> ret, msg |-> ""]

Panicked(h, msg) == [h |-> h, exit |-> "panic", ret |-> <<>>, msg |-> msg]

Unwound(h, msg) == [h |-> h, exit |-> "unwind", ret |-> <<>>, msg |-> msg]

new(T, value, h) ==
  LET ty == T
  IN IF ~PyExceptionClass_Check(ty) THEN Panicked(h, "assertion failed: left != right")
     ELSE Returned(h, <<PyErr(ty, PyErrValue_ToObject(value), NULL)>>)

from_type(exc, args, h) ==
  Returned(h, <<PyErr(exc, PyErrValue_ToObject(args), NULL)>>)

from_value(T, value, h) ==
  LET ty == T
  IN IF ~PyExceptionClass_Check(ty) THEN Panicked(h, "assertion failed: left != right")
     ELSE Returned(h, <<PyErr(ty, value, NULL)>>)

\* from_instance that takes whatever is no exception instance for a class.
from_instance_unchecked(obj, h) ==
  IF PyExceptionInstance_Check(obj)
  THEN Returned(h, <<PyErr(PyExceptionInstance_Class(obj),
                           PyErrValue_Value(obj), NULL)>>)
  ELSE Returned(h, <<PyErr(obj, PyErrValue_None, NULL)>>)

from_instance(obj, h) ==
  IF PyExceptionInstance_Check(obj)
  THEN Returned(h, <<PyErr(PyExceptionInstance_Class(obj),
                           PyErrValue_Value(obj), NULL)>>)
  ELSE IF PyExceptionClass_Check(obj)
  THEN Returned(h, <<PyErr(obj, PyErrValue_None, NULL)>>)
  ELSE Returned(h, <<PyErr(TypeObject("TypeError"),
                           PyErrValue_ToObject(
                              RustStr("exceptions must derive from BaseException")),
                           NULL)>>)

\* new_from_ffi_tuple without the SystemError fallback.
new_from_ffi_tuple_no_fallback(ptype, pvalue, ptraceback) ==
  LET value == IF pvalue # NULL THEN PyErrValue_Value(pvalue)
               ELSE PyErrValue_None
  IN PyErr(ptype, value, ptraceback)

new_from_ffi_tuple(ptype, pvalue, ptraceback) ==
  LET value == IF pvalue # NULL THEN PyErrValue_Value(pvalue)
               ELSE PyErrValue_None
      type  == IF ptype = NULL THEN TypeObject("SystemError") ELSE ptype
  IN PyErr(type, value, ptraceback)

\* restore that hands over null for a lazy value instead of evaluating it.
restore_dropping_lazy(self, h) ==
  LET ob == IF self.pvalue.tag = "Value" THEN self.pvalue.ob ELSE NULL
  IN Returned(PyErr_Restore(h, self.ptype, ob, self.ptraceback), <<>>)

\* restore that hands over no traceback.
restore_without_traceback(self, h) ==
  LET r == CASE self.pvalue.tag = "None"     -> [h |-> h, ob |-> NULL, ok |-> TRUE]
             [] self.pvalue.tag = "Value"    -> [h |-> h, ob |-> self.pvalue.ob, ok |-> TRUE]
             [] self.pvalue.tag = "ToArgs"   -> arguments(self.pvalue.boxed, h)
             [] self.pvalue.tag = "ToObject" -> to_object(self.pvalue.boxed, h)
  IN Returned(PyErr_Restore(r.h, self.ptype, r.ob, NULL), <<>>)

restore(self, h) ==
  LET r == CASE self.pvalue.tag = "None"     -> [h |-> h, ob |-> NULL, ok |-> TRUE]
             [] self.pvalue.tag = "Value"    -> [h |-> h, ob |-> self.pvalue.ob, ok |-> TRUE]
             [] self.pvalue.tag = "ToArgs"   -> arguments(self.pvalue.boxed, h)
             [] self.pvalue.tag = "ToObject" -> to_object(self.pvalue.boxed, h)
  IN IF ~r.ok THEN Panicked(r.h, self.pvalue.boxed.text)
     ELSE Returned(PyErr_Restore(r.h, self.ptype, r.ob, self.ptraceback), <<>>)

\* print that restores the record and does not ask for the traceback.
print_leaving_error(self, h) == Returned(restore(self, h).h, <<>>)

print(self, h) ==
  LET r == restore(self, h)
  IN IF r.exit # "return" THEN r ELSE Returned(PyErr_PrintEx(r.h, 0), <<>>)

\* The variant passing the flag of print.
print_and_set_sys_last_vars_without_flag(self, h) ==
  LET r == restore(self, h)
  IN IF r.exit # "return" THEN r ELSE Returned(PyErr_PrintEx(r.h, 0), <<>>)

print_and_set_sys_last_vars(self, h) ==
  LET r == restore(self, h)
  IN IF r.exit # "return" THEN r ELSE Returned(PyErr_PrintEx(r.h, 1), <<>>)

\* fetch that resumes the panic with the fixed text whatever the value holds.
fetch_fixed_message(h) ==
  LET f   == PyErr_Fetch(h)
      err == new_from_ffi_tuple(f.ptype, f.pvalue, f.ptraceback)
  IN IF f.ptype = PanicException_type_object
     THEN LET h2 == eprintln(eprintln(f.h,
                                      "--- PyO3 is resuming a panic after fetching a PanicException from Python. ---"),
                             "Python stack trace below:")
          IN Unwound(print(err, h2).h, "Unwrapped panic from Python code")
     ELSE Returned(f.h, <<err>>)

\* fetch that prints the record before it decodes the message and writes
\* the two lines.
fetch_printing_first(h) ==
  LET f   == PyErr_Fetch(h)
      err == new_from_ffi_tuple(f.ptype, f.pvalue, f.ptraceback)
  IN IF f.ptype = PanicException_type_object
     THEN LET h1  == print(err, f.h).h
              ex  == IF f.pvalue = NULL THEN [ok |-> FALSE, text |-> ""]
                     ELSE extract_String(f.pvalue)
              msg == IF ex.ok THEN ex.text ELSE "Unwrapped panic from Python code"
              h2  == IF f.pvalue = NULL THEN h1
                     ELSE [h1 EXCEPT !.calls = Append(@, "extract")]
          IN Unwound(eprintln(eprintln(h2,
                                       "--- PyO3 is resuming a panic after fetching a PanicException from Python. ---"),
                              "Python stack trace below:"), msg)
     ELSE Returned(f.h, <<err>>)

\* fetch that leaves the error pending.
fetch_leaving_pending(h) ==
  LET f   == PyErr_Fetch(h)
      err == new_from_ffi_tuple(f.ptype, f.pvalue, f.ptraceback)
  IN IF f.ptype = PanicException_type_object
     THEN Unwound(eprintln(eprintln(f.h,
                                    "--- PyO3 is resuming a panic after fetching a PanicException from Python. ---"),
                           "Python stack trace below:"),
                  "Unwrapped panic from Python code")
     ELSE Returned([f.h EXCEPT !.slot = h.slot], <<err>>)

\* The decoding of the fetched value as text is logged as "extract".
fetch(h) ==
  LET f   == PyErr_Fetch(h)
      err == new_from_ffi_tuple(f.ptype, f.pvalue, f.ptraceback)
  IN IF f.ptype = PanicException_type_object
     THEN LET ex  == IF f.pvalue = NULL THEN [ok |-> FALSE, text |-> ""]
                     ELSE extract_String(f.pvalue)
              msg == IF ex.ok THEN ex.text ELSE "Unwrapped panic from Python code"
              h1  == IF f.pvalue = NULL THEN f.h
                     ELSE [f.h EXCEPT !.calls = Append(@, "extract")]
              h2  == eprintln(eprintln(h1,
                                       "--- PyO3 is resuming a panic after fetching a PanicException from Python. ---"),
                              "Python stack trace below:")
          IN Unwound(print(err, h2).h, msg)
     ELSE Returned(f.h, <<err>>)

\* PyErr::occurred: PyErr_Occurred returns the pending type, borrowed, or null.
occurred(h) == h.slot.ptype # NULL

matches(self, exc) == PyErr_GivenExceptionMatches(self.ptype, exc)

is_instance(self, T) == PyErr_GivenExceptionMatches(self.ptype, T)

\* into_normalized that hands the interpreter null for a Value.
into_normalized_dropping_value(self, h) ==
  LET r == CASE self.pvalue.tag = "None"     -> [h |-> h, ob |-> NULL, ok |-> TRUE]
             [] self.pvalue.tag = "Value"    -> [h |-> h, ob |-> NULL, ok |-> TRUE]
             [] self.pvalue.tag = "ToArgs"   -> arguments(self.pvalue.boxed, h)
             [] self.pvalue.tag = "ToObject" -> to_object(self.pvalue.boxed, h)
      n == PyErr_NormalizeException(r.h, self.ptype, r.ob, self.ptraceback)
  IN Returned(n.h, <<new_from_ffi_tuple(n.ptype, n.pvalue, n.ptraceback)>>)

into_normalized(self, h) ==
  LET r == CASE self.pvalue.tag = "None"     -> [h |-> h, ob |-> NULL, ok |-> TRUE]
             [] self.pvalue.tag = "Value"    -> [h |-> h, ob |-> self.pvalue.ob, ok |-> TRUE]
             [] self.pvalue.tag = "ToArgs"   -> arguments(self.pvalue.boxed, h)
             [] self.pvalue.tag = "ToObject" -> to_object(self.pvalue.boxed, h)
      n == PyErr_NormalizeException(r.h, self.ptype, r.ob, self.ptraceback)
  IN IF ~r.ok THEN Panicked(r.h, self.pvalue.boxed.text)
     ELSE Returned(n.h, <<new_from_ffi_tuple(n.ptype, n.pvalue, n.ptraceback)>>)

\* normalize that evaluates the producer and writes the record back as it
\* read it.
normalize_keeping_producer(self, h) ==
  LET res == into_normalized(self, h)
  IN IF res.exit = "return" /\ self.pvalue.tag \in {"ToArgs", "ToObject"}
     THEN Returned(res.h, <<self>>) ELSE res

\* ptr::write(self, ptr::read(self).into_normalized(py))
\* normalize that hands the record to the interpreter through the error
\* indicator and takes it back.
normalize_through_slot(self, h) ==
  LET r == restore(self, h)
  IN IF r.exit # "return" THEN r ELSE fetch(r.h)

normalize(self, h) == into_normalized(self, h)

\* clone_ref that copies a lazy value as it is, producer included.
clone_ref_sharing_lazy(self, h) ==
  LET value == IF self.pvalue.tag = "Value"
               THEN PyErrValue_Value(self.pvalue.ob) ELSE self.pvalue
  IN Returned(h, <<PyErr(self.ptype, value, self.ptraceback)>>)

\* clone_ref that gives the clone no traceback.
clone_ref_without_traceback(self, h) ==
  LET v == CASE self.pvalue.tag = "None"  -> [h |-> h, ob |-> NULL, ok |-> TRUE]
             [] self.pvalue.tag = "Value" -> [h |-> h, ob |-> self.pvalue.ob, ok |-> TRUE]
             [] self.pvalue.tag = "ToArgs"   -> arguments(self.pvalue.boxed, h)
             [] self.pvalue.tag = "ToObject" -> to_object(self.pvalue.boxed, h)
      value == IF self.pvalue.tag = "None" THEN PyErrValue_None
               ELSE PyErrValue_Value(v.ob)
  IN Returned(v.h, <<PyErr(self.ptype, value, NULL)>>)

\* clone_ref that takes the value of both kinds of producer from
\* arguments().
clone_ref_through_arguments(self, h) ==
  LET v == CASE self.pvalue.tag = "None"  -> [h |-> h, ob |-> NULL, ok |-> TRUE]
             [] self.pvalue.tag = "Value" -> [h |-> h, ob |-> self.pvalue.ob, ok |-> TRUE]
             [] self.pvalue.tag = "ToArgs"   -> arguments(self.pvalue.boxed, h)
             [] self.pvalue.tag = "ToObject" -> arguments(self.pvalue.boxed, h)
      value == IF self.pvalue.tag = "None" THEN PyErrValue_None
               ELSE PyErrValue_Value(v.ob)
  IN IF ~v.ok THEN Panicked(v.h, self.pvalue.boxed.text)
     ELSE Returned(v.h, <<PyErr(self.ptype, value, self.ptraceback)>>)

clone_ref(self, h) ==
  LET v == CASE self.pvalue.tag = "None"  -> [h |-> h, ob |-> NULL, ok |-> TRUE]
             [] self.pvalue.tag = "Value" -> [h |-> h, ob |-> self.pvalue.ob, ok |-> TRUE]
             [] self.pvalue.tag = "ToArgs"   -> arguments(self.pvalue.boxed, h)
             [] self.pvalue.tag = "ToObject" -> to_object(self.pvalue.boxed, h)
      value == IF self.pvalue.tag = "None" THEN PyErrValue_None
               ELSE PyErrValue_Value(v.ob)
  IN IF ~v.ok THEN Panicked(v.h, self.pvalue.boxed.text)
     ELSE Returned(v.h, <<PyErr(self.ptype, value, self.ptraceback)>>)

(***************************************************************************)
(* The program: the interpreter's error indicator (slot), the allocation   *)
(* counter (next), the PyErr the program holds (err, a sequence of length *)
(* 0 or 1), and the last three calls with what each was given and what it *)
(* handed back (hist).  The reference counts (rc) are followed only by the *)
(* ownership specification further down, the threads and the interpreter   *)
(* lock (gil) only by the specification of threads.                        *)
(***************************************************************************)
VARIABLES slot, next, err, hist, rc, gil, pymodule

vars == <<slot, next, err, hist, rc, gil, pymodule>>

\* The inputs the program's calls are made with.
TypeParams ==
  {TypeObject("OSError"), TypeObject("PanicException"),
   TypeObject("UnicodeDecodeError"), TypeObject("int")}

ToObjectBoxes == {RustStr("new panic")}

LiveObjects ==
  {ExcInstance("FileNotFoundError", "gone", 0), TypeObject("OSError"),
   PyString("new panic", 0)}

ErrValues ==
  {PyErrValue_None} \cup {PyErrValue_Value(o) : o \in LiveObjects}
    \cup {PyErrValue_ToArgs(b) : b \in {IoError("entity not found")}}
    \cup {PyErrValue_ToObject(b) : b \in ToObjectBoxes}

\* The errors interpreter code leaves pending when it raises.
Raised ==
  {[ptype |-> TypeObject("OSError"), pvalue |-> PyString("gone", 0),
    ptraceback |-> NULL],
   [ptype |-> TypeObject("FileNotFoundError"),
    pvalue |-> ExcInstance("FileNotFoundError", "gone", 0),
    ptraceback |-> PyTraceBack(0)],
   [ptype |-> TypeObject("PanicException"), pvalue |-> PyString("new panic", 0),
    ptraceback |-> PyTraceBack(0)]}

Host == [slot |-> slot, next |-> next, calls |-> <<>>, mod |-> pymodule]

\* No counted reference to any object.
NoRefs == [o \in {} |-> 0]

\* The number of threads of the program.
MaxThreads == 2

Threads == 1..MaxThreads


\* One finished call: its name, the object and the record it was given, the
\* indicator and the allocation counter before it, and what it handed back.
Entry(op, obj, arg, res) ==
  [op |-> op, obj |-> obj, arg |-> arg, pre |-> slot, at |-> next,
   exit |-> res.exit, ret |-> res.ret, msg |-> res.msg, calls |-> res.h.calls]

NoEntry ==
  [op |-> "", obj |-> NULL, arg |-> <<>>, pre |-> EmptySlot, at |-> 0,
   exit |-> "", ret |-> <<>>, msg |-> "", calls |-> <<>>]

\* The interpreter state the last call started from.
Before(e) == [slot |-> e.pre, next |-> e.at, calls |-> <<>>]

\* What is kept of a call once later calls have followed it.  Of the call
\* before the last: whether it was a restore (with the record restored), a
\* normalize or a fetch; of the one before that: whether it was a fetch
\* that returned.
Older(e) ==
  IF e.op = "restore" THEN [NoEntry EXCEPT !.op = e.op, !.arg = e.arg]
  ELSE IF e.op \in {"normalize", "fetch"}
  THEN [NoEntry EXCEPT !.op = e.op, !.exit = e.exit]
  ELSE NoEntry

Oldest(e) ==
  IF e.op = "fetch" THEN [NoEntry EXCEPT !.op = e.op, !.exit = e.exit]
  ELSE NoEntry

Push(e) == hist' = <<Oldest(hist[2]), Older(hist[3]), e>> /\ UNCHANGED <<rc, gil, pymodule>>

\* The call's effect on the interpreter, within the allocation bound.
Effect(res) ==
  /\ res.h.next <= MaxAlloc
  /\ slot' = res.h.slot
  /\ next' = res.h.next

\* A call whose returned record, if any, becomes the record the program holds.
Construct(op, obj, res) ==
  /\ Effect(res)
  /\ err' = IF res.exit = "return" THEN res.ret ELSE err
  /\ Push(Entry(op, obj, <<>>, res))

\* A call that consumes the record the program holds.
Consume(op, res) ==
  /\ err # <<>>
  /\ Effect(res)
  /\ err' = <<>>
  /\ Push(Entry(op, NULL, err, res))

Init ==
  /\ slot = EmptySlot
  /\ next = 0
  /\ err = <<>>
  /\ hist = <<NoEntry, NoEntry, NoEntry>>
  /\ rc = NoRefs
  /\ gil = [holder |-> 0, held |-> [t \in Threads |-> <<>>],
            window |-> [t \in Threads |-> FALSE], actor |-> 0,
            inWindow |-> FALSE]
  /\ pymodule = [all |-> NULL]

DoNew ==
  \E T \in TypeParams, V \in ToObjectBoxes :
    Construct("new", T, new(T, V, Host))

DoFromType ==
  \E exc \in TypeParams, A \in ToObjectBoxes :
    Construct("from_type", exc, from_type(exc, A, Host))

DoFromValue ==
  \E T \in TypeParams, value \in ErrValues :
    Construct("from_value", T, from_value(T, value, Host))

DoFromInstance ==
  \E obj \in LiveObjects :
    Construct("from_instance", obj, from_instance(obj, Host))

\* fetch returns a record: the program holds it from then on, or drops it
\* at once and keeps the record it already held.
DoFetch ==
  LET res == fetch(Host)
  IN /\ Effect(res)
     /\ \E keep \in {"returned", "held"} :
          err' = IF keep = "returned" /\ res.exit = "return" THEN res.ret
                 ELSE err
     /\ Push(Entry("fetch", NULL, <<>>, res))

DoRestore == err # <<>> /\ Consume("restore", restore(err[1], Host))

DoPrint == err # <<>> /\ Consume("print", print(err[1], Host))

DoPrintAndSet ==
  err # <<>> /\ Consume("print_and_set_sys_last_vars",
                        print_and_set_sys_last_vars(err[1], Host))

DoNormalize ==
  /\ err # <<>>
  /\ LET res == normalize(err[1], Host)
     IN /\ Effect(res)
        /\ err' = res.ret
        /\ Push(Entry("normalize", NULL, err, res))

\* clone_ref borrows the record; afterwards the program goes on with the
\* original (the clone is dropped) or with the clone (the original is).
DoCloneRef ==
  /\ err # <<>>
  /\ LET res == clone_ref(err[1], Host)
     IN /\ Effect(res)
        /\ \E keep \in {"original", "clone"} :
             err' = IF keep = "clone" THEN res.ret ELSE err
        /\ Push(Entry("clone_ref", NULL, err, res))

\* The record going out of scope.
DoDrop == err # <<>> /\ Consume("drop", Returned(Host, <<>>))

\* Interpreter code raising: the indicator is set behind the bridge's back.
HostRaise ==
  \E t \in Raised :
    /\ slot' = t
    /\ UNCHANGED <<next, err>>
    /\ Push(Entry("raise", NULL, <<>>, Returned([Host EXCEPT !.slot = t], <<>>)))

Next ==
  \/ DoNew
  \/ DoFromType
  \/ DoFromValue
  \/ DoFromInstance
  \/ DoFetch
  \/ DoRestore
  \/ DoPrint
  \/ DoPrintAndSet
  \/ DoNormalize
  \/ DoCloneRef
  \/ DoDrop
  \/ HostRaise

Spec == Init /\ [][Next]_vars

(***************************************************************************)
(* Conversion of Rust errors into PyErr (the From impls of err.rs).  A    *)
(* Rust error is the name of its type, its io::ErrorKind where it has one *)
(* and the text its Display impl writes.                                  *)
(***************************************************************************)
\* The number of interpreter objects a run of conversions may allocate.
MaxForeignAlloc == 3

IoErrorOfKind(kind, t) == [rs |-> "io::Error", kind |-> kind, text |-> t]

RustError(type, t) == [rs |-> type, kind |-> "", text |-> t]

\* PyErrValue::from_err_args
from_err_args(value) == PyErrValue_ToArgs(value)

\* impl From<io::Error> for PyErr: one arm per io::ErrorKind.
from_io_Error(e, h) ==
  CASE e.kind = "BrokenPipe" ->
         from_value(TypeObject("BrokenPipeError"), from_err_args(e), h)
    [] e.kind = "ConnectionRefused" ->
         from_value(TypeObject("ConnectionRefusedError"), from_err_args(e), h)
    [] e.kind = "ConnectionAborted" ->
         from_value(TypeObject("ConnectionAbortedError"), from_err_args(e), h)
    [] e.kind = "ConnectionReset" ->
         from_value(TypeObject("ConnectionResetError"), from_err_args(e), h)
    [] e.kind = "Interrupted" ->
         from_value(TypeObject("InterruptedError"), from_err_args(e), h)
    [] e.kind = "NotFound" ->
         from_value(TypeObject("FileNotFoundError"), from_err_args(e), h)
    [] e.kind = "WouldBlock" ->
         from_value(TypeObject("BlockingIOError"), from_err_args(e), h)
    [] e.kind = "TimedOut" ->
         from_value(TypeObject("TimeoutError"), from_err_args(e), h)
    [] OTHER ->
         from_value(TypeObject("OSError"), from_err_args(e), h)

\* impl From<io::IntoInnerError<W>> for PyErr
from_IntoInnerError(e, h) ==
  from_value(TypeObject("OSError"), from_err_args(e), h)

\* The impl_to_pyerr! invocations: Rust error type to exception class.
impl_to_pyerr ==
  [t \in {"TryFromSliceError", "ParseIntError", "ParseFloatError",
          "TryFromIntError", "ParseBoolError", "IntoStringError", "NulError",
          "Utf8Error", "FromUtf8Error", "FromUtf16Error", "DecodeUtf16Error",
          "AddrParseError"} |->
     CASE t = "TryFromSliceError" -> "ValueError"
       [] t = "ParseIntError"     -> "ValueError"
       [] t = "ParseFloatError"   -> "ValueError"
       [] t = "TryFromIntError"   -> "ValueError"
       [] t = "ParseBoolError"    -> "ValueError"
       [] t = "IntoStringError"   -> "UnicodeDecodeError"
       [] t = "NulError"          -> "ValueError"
       [] t = "Utf8Error"         -> "UnicodeDecodeError"
       [] t = "FromUtf8Error"     -> "UnicodeDecodeError"
       [] t = "FromUtf16Error"    -> "UnicodeDecodeError"
       [] t = "DecodeUtf16Error"  -> "UnicodeDecodeError"
       [] t = "AddrParseError"    -> "ValueError"]

\* The From impl the macro generates for one Rust error type.
from_err(e, h) ==
  from_value(TypeObject(impl_to_pyerr[e.rs]), from_err_args(e), h)

\* impl From<Infallible> for PyErr
from_Infallible(e, h) ==
  new(TypeObject("ValueError"), RustStr("Infalliable!"), h)

\* The Rust errors the program converts.
IoErrors ==
  {IoErrorOfKind(k, t) :
     k \in {"NotFound", "BrokenPipe", "ConnectionRefused", "ConnectionAborted",
            "ConnectionReset", "Interrupted", "WouldBlock", "TimedOut",
            "PermissionDenied", "Other"},
     t \in {"entity not found", "No such file or directory (os error 2)"}}

MacroErrors ==
  {RustError("TryFromSliceError", "could not convert slice to array"),
   RustError("ParseIntError", "invalid digit found in string"),
   RustError("ParseIntError", "cannot parse integer from empty string"),
   RustError("ParseFloatError", "invalid float literal"),
   RustError("TryFromIntError", "out of range integral type conversion attempted"),
   RustError("ParseBoolError", "provided string was not true or false"),
   RustError("IntoStringError", "C string contained non-utf8 bytes"),
   RustError("NulError", "nul byte found in provided data at position: 1"),
   RustError("Utf8Error", "invalid utf-8 sequence of 1 bytes from index 0"),
   RustError("FromUtf8Error", "invalid utf-8 sequence of 1 bytes from index 0"),
   RustError("FromUtf16Error", "invalid utf-16: lone surrogate found"),
   RustError("DecodeUtf16Error", "unpaired surrogate found: d800"),
   RustError("AddrParseError", "invalid IP address syntax")}

\* One call of the program within the allocation bound: cell is the record
\* it holds afterwards.  Of the call before the last, a conversion keeps the
\* error it was given.
Convert(op, arg, res, cell) ==
  /\ res.h.next <= MaxForeignAlloc
  /\ slot' = res.h.slot
  /\ next' = res.h.next
  /\ err' = cell
  /\ hist' = <<NoEntry,
               IF hist[3].op = "from"
               THEN [NoEntry EXCEPT !.op = "from", !.arg = hist[3].arg]
               ELSE NoEntry,
               Entry(op, NULL, arg, res)>>
  /\ UNCHANGED <<rc, gil, pymodule>>

\* PyErr::from(e): the record returned is the one the program holds.
DoFromIoError ==
  \E e \in IoErrors :
    LET res == from_io_Error(e, Host) IN Convert("from", <<e>>, res, res.ret)

DoFromIntoInnerError ==
  \E e \in {RustError("io::IntoInnerError", "failed to write the buffered data")} :
    LET res == from_IntoInnerError(e, Host)
    IN Convert("from", <<e>>, res, res.ret)

DoFromErr ==
  \E e \in MacroErrors :
    LET res == from_err(e, Host) IN Convert("from", <<e>>, res, res.ret)

DoFromInfallible ==
  LET res == from_Infallible(RustError("Infallible", ""), Host)
  IN Convert("from", <<RustError("Infallible", "")>>, res, res.ret)

DoNormalizeConverted ==
  /\ err # <<>>
  /\ LET res == normalize(err[1], Host)
     IN Convert("normalize", err, res, res.ret)

DoDropConverted ==
  /\ err # <<>>
  /\ Convert("drop", err, Returned(Host, <<>>), <<>>)

NextForeign ==
  \/ DoFromIoError
  \/ DoFromIntoInnerError
  \/ DoFromErr
  \/ DoFromInfallible
  \/ DoNormalizeConverted
  \/ DoDropConverted

SpecForeign == Init /\ [][NextForeign]_vars

(***************************************************************************)
(* Operations that build a C string for the interpreter or return its     *)
(* failures: PyErr::warn, PyErr::new_type, error_on_minusone and the      *)
(* PyModule constructors (src/types/module.rs).  A &str is a sequence of  *)
(* bytes.                                                                  *)
(***************************************************************************)
\* The longest name or message the program passes.
MaxNameLen == 2

\* std::ffi::NulError, with the text its Display impl writes.
NulError(pos) ==
  RustError("NulError",
            "nul byte found in provided data at position: "
              \o <<"0", "1", "2", "3", "4">>[pos + 1])

\* CString::new: fails on an interior zero byte, at the index (from 0) of
\* the first one.
CString_new(s) ==
  LET nul == CHOOSE i \in DOMAIN s : s[i] = 0 /\ \A j \in 1..(i - 1) : s[j] # 0
  IN IF \E i \in DOMAIN s : s[i] = 0
     THEN [ok |-> FALSE, cstr |-> <<>>, e |-> NulError(nul - 1)]
     ELSE [ok |-> TRUE, cstr |-> Append(s, 0), e |-> NoBox]

\* A PyResult is Ok (no record returned) or Err (the record returned).
\* What an interpreter call does: it succeeds, or it raises, leaving an
\* error pending and returning its failure value (-1 or null).
HostOk == [ok |-> TRUE, raised |-> EmptySlot]

HostFail(t) == [ok |-> FALSE, raised |-> t]

HostOutcomes == {HostOk} \cup {HostFail(t) : t \in Raised}

\* The call is logged; a call that raised is followed by "raised".
HostCall(h, name, outcome) ==
  IF outcome.ok THEN [h EXCEPT !.calls = Append(@, name)]
  ELSE [h EXCEPT !.calls = Append(Append(@, name), "raised"),
                 !.slot = outcome.raised]

\* error_on_minusone that takes every negative code for a failure.
error_on_minusone_on_negative(h, result) ==
  IF result >= 0 THEN Returned(h, <<>>) ELSE fetch(h)

error_on_minusone(h, result) ==
  IF result # -1 THEN Returned(h, <<>>) ELSE fetch(h)

\* Python::from_owned_ptr_or_err: a null pointer is the pending error.
from_owned_ptr_or_err(h, outcome) ==
  IF outcome.ok THEN Returned(h, <<>>) ELSE fetch(h)

warn(message, outcome, h) ==
  LET m == CString_new(message)
  IN IF ~m.ok THEN from_err(m.e, h)
     ELSE error_on_minusone(HostCall(h, "PyErr_WarnEx", outcome),
                            IF outcome.ok THEN 0 ELSE -1)

\* new_type returns the pointer PyErr_NewException gave, unchecked; of a
\* failed call that is null, with the error left pending.
new_type(name, outcome, h) ==
  LET n == CString_new(name)
  IN IF ~n.ok THEN Panicked(h, "Failed to initialize nul terminated exception name")
     ELSE Returned(HostCall(h, "PyErr_NewException", outcome), <<>>)

PyModule_new(name, outcome, h) ==
  LET n == CString_new(name)
  IN IF ~n.ok THEN from_err(n.e, h)
     ELSE from_owned_ptr_or_err(HostCall(h, "PyModule_New", outcome), outcome)

PyModule_import(name, outcome, h) ==
  LET n == CString_new(name)
  IN IF ~n.ok THEN from_err(n.e, h)
     ELSE from_owned_ptr_or_err(HostCall(h, "PyImport_ImportModule", outcome),
                                outcome)

\* from_code that hands the module name to the interpreter unvalidated.
PyModule_from_code_unchecked_name(code, file_name, module_name, compiled, executed, h) ==
  LET data     == CString_new(code)
      filename == CString_new(file_name)
  IN IF ~data.ok THEN from_err(data.e, h)
     ELSE IF ~filename.ok THEN from_err(filename.e, h)
     ELSE LET h1 == HostCall(h, "Py_CompileString", compiled)
          IN IF ~compiled.ok THEN fetch(h1)
             ELSE LET h2 == HostCall(h1, "PyImport_ExecCodeModuleEx", executed)
                  IN IF ~executed.ok THEN fetch(h2)
                     ELSE Returned(h2, <<>>)

PyModule_from_code(code, file_name, module_name, compiled, executed, h) ==
  LET data     == CString_new(code)
      filename == CString_new(file_name)
      module   == CString_new(module_name)
  IN IF ~data.ok THEN from_err(data.e, h)
     ELSE IF ~filename.ok THEN from_err(filename.e, h)
     ELSE IF ~module.ok THEN from_err(module.e, h)
     ELSE LET h1 == HostCall(h, "Py_CompileString", compiled)
          IN IF ~compiled.ok THEN fetch(h1)
             ELSE LET h2 == HostCall(h1, "PyImport_ExecCodeModuleEx", executed)
                  IN IF ~executed.ok THEN fetch(h2)
                     ELSE Returned(h2, <<>>)

\* impl From<PyDowncastError> for PyErr: exceptions::TypeError.into()
from_PyDowncastError(h) ==
  from_value(TypeObject("TypeError"), PyErrValue_None, h)

\* getattr, setattr, append and call of the object protocol: the
\* interpreter call, and the pending error as Err when it failed.
ObjectProtocol(h, name, outcome) ==
  from_owned_ptr_or_err(HostCall(h, name, outcome), outcome)

\* index that makes a new list after every failed read of __all__.
index_replacing_on_any_error(getattr_all, is_list, setattr_all, h) ==
  LET g == ObjectProtocol(h, "getattr(__all__)", getattr_all)
  IN IF g.exit # "return" THEN g
     ELSE IF g.ret = <<>>
     THEN IF is_list
          THEN [h |-> g.h, exit |-> "return", ret |-> <<>>, msg |-> "",
                ok |-> <<h.mod.all>>]
          ELSE from_PyDowncastError(g.h)
     ELSE LET l == PyList("", g.h.next + 1)
              s == ObjectProtocol([g.h EXCEPT !.next = @ + 1],
                                  "setattr(__all__)", setattr_all)
          IN IF s.exit # "return" \/ s.ret # <<>> THEN s
             ELSE [h |-> [s.h EXCEPT !.mod.all = l], exit |-> "return",
                   ret |-> <<>>, msg |-> "", ok |-> <<l>>]

\* PyModule::index.  h.mod.all is the module's __all__ attribute (null
\* when it has none), is_list whether downcast accepts it; Ok carries the
\* list in the field ok.  PyList::empty makes a new object; a successful
\* setattr binds it.
index(getattr_all, is_list, setattr_all, h) ==
  LET g == ObjectProtocol(h, "getattr(__all__)", getattr_all)
  IN IF g.exit # "return" THEN g
     ELSE IF g.ret = <<>>
     THEN IF is_list
          THEN [h |-> g.h, exit |-> "return", ret |-> <<>>, msg |-> "",
                ok |-> <<h.mod.all>>]
          ELSE from_PyDowncastError(g.h)
     ELSE IF is_instance(g.ret[1], TypeObject("AttributeError"))
     THEN LET l == PyList("", g.h.next + 1)
              s == ObjectProtocol([g.h EXCEPT !.next = @ + 1],
                                  "setattr(__all__)", setattr_all)
          IN IF s.exit # "return" \/ s.ret # <<>> THEN s
             ELSE [h |-> [s.h EXCEPT !.mod.all = l], exit |-> "return",
                   ret |-> <<>>, msg |-> "", ok |-> <<l>>]
     ELSE g

add(getattr_all, is_list, setattr_all, appended, setattr_name, h) ==
  LET i == index(getattr_all, is_list, setattr_all, h)
  IN IF i.exit # "return" \/ i.ret # <<>> THEN i
     ELSE LET a == ObjectProtocol(i.h, "append", appended)
          IN IF a.exit # "return" THEN a
             ELSE IF a.ret # <<>> THEN Panicked(a.h, "could not append __name__ to __all__")
             ELSE ObjectProtocol(a.h, "setattr", setattr_name)

add_wrapped(getattr_name, name_is_str, getattr_all, is_list, setattr_all, appended, setattr_name, h) ==
  LET n == ObjectProtocol(h, "getattr(__name__)", getattr_name)
  IN IF n.exit # "return" THEN n
     ELSE IF n.ret # <<>> THEN Panicked(n.h, "A function or module must have a __name__")
     ELSE IF ~name_is_str THEN Panicked(n.h, "called Result::unwrap() on an Err value")
     ELSE add(getattr_all, is_list, setattr_all, appended, setattr_name, n.h)

call(getattr_name, called, h) ==
  LET g == ObjectProtocol(h, "getattr", getattr_name)
  IN IF g.exit # "return" \/ g.ret # <<>> THEN g
     ELSE ObjectProtocol(g.h, "call", called)

panic_after_error(h) ==
  Panicked(PyErr_PrintEx(h, 1), "Python API call failed")

\* The result codes (c_int) error_on_minusone is given.
ResultCodes == {-2, -1, 0, 1}

\* The strings and the interpreter outcomes the program's calls meet.
Strs == UNION {[1..n -> {0, 97}] : n \in 0..MaxNameLen}

AttributeErrorRaised ==
  [ptype |-> TypeObject("AttributeError"),
   pvalue |-> PyString("module has no attribute __all__", 0),
   ptraceback |-> NULL]

\* A call that succeeds or raises OSError; one that may also raise the
\* PanicException of a callback that panicked.
CallOutcomes ==
  {HostOk} \cup {HostFail(t) : t \in {r \in Raised : r.ptype = TypeObject("OSError")}}

GetattrOutcomes ==
  CallOutcomes
    \cup {HostFail(t) : t \in {r \in Raised : r.ptype = PanicException_type_object}}

GetattrAllOutcomes == GetattrOutcomes \cup {HostFail(AttributeErrorRaised)}

\* What a call was given: its strings, the outcomes of the interpreter
\* calls it may make, and what the objects it meets are.
Input(strs, outcomes, flags) ==
  [strs |-> strs, outcomes |-> outcomes, flags |-> flags]

\* One call at the boundary: its result is all the program keeps, and the
\* objects made during the call go with the module it was made on.
Boundary(op, input, res) ==
  /\ slot' = res.h.slot
  /\ next' = next
  /\ err' = res.ret
  /\ hist' = <<NoEntry, NoEntry, Entry(op, NULL, <<input>>, res)>>
  /\ UNCHANGED <<rc, gil, pymodule>>

DoWarn ==
  \E message \in Strs, o \in HostOutcomes :
    Boundary("warn", Input(<<message>>, <<o>>, <<>>), warn(message, o, Host))

DoNewType ==
  \E name \in Strs, o \in HostOutcomes :
    Boundary("new_type", Input(<<name>>, <<o>>, <<>>), new_type(name, o, Host))

DoModuleNew ==
  \E name \in Strs, o \in HostOutcomes :
    Boundary("PyModule::new", Input(<<name>>, <<o>>, <<>>),
             PyModule_new(name, o, Host))

DoModuleImport ==
  \E name \in Strs, o \in HostOutcomes :
    Boundary("PyModule::import", Input(<<name>>, <<o>>, <<>>),
             PyModule_import(name, o, Host))

DoModuleFromCode ==
  \E code \in {s \in Strs : Len(s) <= 1},
     file_name \in {s \in Strs : Len(s) <= 1},
     module_name \in {s \in Strs : Len(s) <= 1},
     compiled \in GetattrOutcomes, executed \in GetattrOutcomes :
    Boundary("PyModule::from_code",
             Input(<<code, file_name, module_name>>, <<compiled, executed>>, <<>>),
             PyModule_from_code(code, file_name, module_name, compiled,
                                executed, Host))

DoErrorOnMinusOne ==
  \E result \in ResultCodes :
    Boundary("error_on_minusone", Input(<<>>, <<>>, <<result>>),
             error_on_minusone(Host, result))

DoIndex ==
  \E g \in GetattrAllOutcomes, is_list \in BOOLEAN, sa \in CallOutcomes :
    Boundary("index", Input(<<>>, <<g, sa>>, <<is_list>>),
             index(g, is_list, sa, Host))

DoAdd ==
  \E g \in GetattrAllOutcomes, is_list \in BOOLEAN, sa \in CallOutcomes,
     ap \in CallOutcomes, sn \in CallOutcomes :
    Boundary("add", Input(<<>>, <<g, sa, ap, sn>>, <<is_list>>),
             add(g, is_list, sa, ap, sn, Host))

DoAddWrapped ==
  \E gn \in GetattrOutcomes, name_is_str \in BOOLEAN,
     g \in GetattrAllOutcomes, is_list \in BOOLEAN, sa \in CallOutcomes,
     ap \in CallOutcomes, sn \in CallOutcomes :
    Boundary("add_wrapped",
             Input(<<>>, <<g, sa, ap, sn, gn>>, <<is_list, name_is_str>>),
             add_wrapped(gn, name_is_str, g, is_list, sa, ap, sn, Host))

DoCall ==
  \E g \in GetattrOutcomes, c \in GetattrOutcomes :
    Boundary("call", Input(<<>>, <<g, c>>, <<>>), call(g, c, Host))

\* Called where an interpreter call has failed and left its error pending.
DoPanicAfterError ==
  /\ slot # EmptySlot
  /\ Boundary("panic_after_error", Input(<<>>, <<>>, <<>>),
              panic_after_error(Host))

\* Interpreter code raising between the program's calls.
RaisePending ==
  \E t \in Raised :
    Boundary("raise", Input(<<>>, <<>>, <<>>),
             Returned([Host EXCEPT !.slot = t], <<>>))

NextBoundary ==
  \/ DoWarn
  \/ DoNewType
  \/ DoModuleNew
  \/ DoModuleImport
  \/ DoModuleFromCode
  \/ DoErrorOnMinusOne
  \/ DoIndex
  \/ DoAdd
  \/ DoAddWrapped
  \/ DoCall
  \/ DoPanicAfterError
  \/ RaisePending

SpecBoundary == Init /\ [][NextBoundary]_vars

(***************************************************************************)
(* One module and its __all__ attribute, over successive calls of        *)
(* PyModule::index.  Reading the attribute raises AttributeError when the *)
(* module has none; reading and binding may also fail with the error of   *)
(* a hook of the module, the PanicException of a callback among them.     *)
(***************************************************************************)
ModuleIndex ==
  \E g \in IF pymodule.all = NULL THEN GetattrAllOutcomes \ {HostOk}
            ELSE GetattrOutcomes,
     sa \in GetattrOutcomes :
    LET is_list == pymodule.all.kind = "list"
        res     == index(g, is_list, sa, Host)
    IN /\ Effect(res)
       /\ err' = res.ret
       /\ pymodule' = res.h.mod
       /\ hist' = <<NoEntry, hist[3],
                    Entry("index", pymodule.all,
                          <<Input(<<>>, <<g, sa>>, <<is_list>>)>>, res)>>
       /\ UNCHANGED <<rc, gil>>

\* Code of the interpreter binding __all__ to a list of its own or to a
\* string, or deleting it.
ModuleSetAll ==
  \E v \in {NULL, PyList("f", 0), PyString("f", 0)} :
    /\ pymodule' = [all |-> v]
    /\ hist' = <<NoEntry, hist[3],
                 Entry("setattr", v, <<>>, Returned(Host, <<>>))>>
    /\ UNCHANGED <<slot, next, err, rc, gil>>

NextModule ==
  \/ ModuleIndex
  \/ ModuleSetAll
  \/ RaisePending

SpecModule == Init /\ [][NextModule]_vars

(***************************************************************************)
(* Every operation on a record side by side, each observed on its own:    *)
(* the constructors, the conversions of Rust errors, clone_ref, normalize, *)
(* matches and is_instance, and the operations on the error indicator.    *)
(* Values are boxed strings and boxed tuples.                             *)
(***************************************************************************)
\* One call: cell is the record the program holds afterwards.
Frame(op, obj, arg, res, cell) ==
  /\ Effect(res)
  /\ err' = cell
  /\ hist' = <<NoEntry, NoEntry, Entry(op, obj, arg, res)>>
  /\ UNCHANGED <<rc, gil, pymodule>>

NextFrame ==
  \/ \E T \in {TypeObject("OSError"), TypeObject("UnicodeDecodeError")},
        V \in {RustStr("new panic"), RustTuple("new panic")} :
       LET res == new(T, V, Host)
       IN Frame("new", T, <<>>, res, IF res.exit = "return" THEN res.ret ELSE err)
  \/ \E exc \in {TypeObject("PanicException"), TypeObject("int")},
        A \in {RustTuple("new panic")} :
       LET res == from_type(exc, A, Host)
       IN Frame("from_type", exc, <<>>, res, res.ret)
  \/ \E T \in {TypeObject("OSError"), TypeObject("UnicodeDecodeError")},
        value \in {PyErrValue_None, PyErrValue_ToArgs(IoError("entity not found"))} :
       LET res == from_value(T, value, Host)
       IN Frame("from_value", T, <<>>, res,
                IF res.exit = "return" THEN res.ret ELSE err)
  \/ \E obj \in LiveObjects :
       LET res == from_instance(obj, Host)
       IN Frame("from_instance", obj, <<>>, res, res.ret)
  \/ \E e \in {IoErrorOfKind("NotFound", "entity not found")} :
       LET res == from_io_Error(e, Host) IN Frame("from", NULL, <<e>>, res, res.ret)
  \/ \E e \in {RustError("io::IntoInnerError", "failed to write the buffered data")} :
       LET res == from_IntoInnerError(e, Host)
       IN Frame("from", NULL, <<e>>, res, res.ret)
  \/ \E e \in {RustError("Utf8Error", "invalid utf-8 sequence of 1 bytes from index 0")} :
       LET res == from_err(e, Host) IN Frame("from", NULL, <<e>>, res, res.ret)
  \/ LET res == from_Infallible(RustError("Infallible", ""), Host)
     IN Frame("from", NULL, <<RustError("Infallible", "")>>, res, res.ret)
  \/ /\ err # <<>>
     /\ \E keep \in {"original", "clone"} :
          LET res == clone_ref(err[1], Host)
          IN Frame("clone_ref", NULL, err, res,
                   IF keep = "clone" THEN res.ret ELSE err)
  \/ /\ err # <<>>
     /\ LET res == normalize(err[1], Host)
        IN Frame("normalize", NULL, err, res, res.ret)
  \/ /\ err # <<>>
     /\ \E exc \in {TypeObject("OSError"), TypeObject("int")} :
          Frame("matches", exc, err, Returned(Host, <<matches(err[1], exc)>>), err)
  \/ /\ err # <<>>
     /\ \E T \in {TypeObject("OSError"), TypeObject("TypeError")} :
          Frame("is_instance", T, err,
                Returned(Host, <<is_instance(err[1], T)>>), err)
  \/ LET res == fetch(Host)
     IN Frame("fetch", NULL, <<>>, res,
              IF res.exit = "return" THEN res.ret ELSE err)
  \/ err # <<>> /\ Frame("restore", NULL, err, restore(err[1], Host), <<>>)
  \/ err # <<>> /\ Frame("print", NULL, err, print(err[1], Host), <<>>)
  \/ /\ err # <<>>
     /\ Frame("print_and_set_sys_last_vars", NULL, err,
              print_and_set_sys_last_vars(err[1], Host), <<>>)
  \/ \E result \in ResultCodes :
       LET res == error_on_minusone(Host, result)
       IN Frame("error_on_minusone", NULL, <<Input(<<>>, <<>>, <<result>>)>>,
                res, IF res.ret # <<>> THEN res.ret ELSE err)
  \/ \E t \in Raised :
       Frame("raise", NULL, <<>>, Returned([Host EXCEPT !.slot = t], <<>>), err)

SpecFrame == Init /\ [][NextFrame]_vars

(***************************************************************************)
(* Ownership.  rc counts, for every interpreter object, the references     *)
(* that records and the error indicator hold; the references interpreter  *)
(* objects hold to one another are on neither side of the count.  Each     *)
(* operation changes the counts by the clone_ref / into / into_ptr /       *)
(* from_owned_ptr / drop steps of its code and by what the interpreter     *)
(* call it makes steals, releases or hands out.                            *)
(***************************************************************************)
\* Py_INCREF (n = 1) and Py_DECREF (n = -1) of the object o; null is
\* skipped, as Py_XINCREF and Py_XDECREF skip it.
Adjust(c, o, n) ==
  LET k == (IF o \in DOMAIN c THEN c[o] ELSE 0) + n
      D == (DOMAIN c) \cup {o}
  IN IF o = NULL THEN c
     ELSE [x \in (IF k = 0 THEN D \ {o} ELSE D) |-> IF x = o THEN k ELSE c[x]]

\* The handles a record owns: its type, the object of a Value, its traceback.
Owned(self) ==
  <<self.ptype,
    IF self.pvalue.tag = "Value" THEN self.pvalue.ob ELSE NULL,
    self.ptraceback>>

SlotHandles(s) == <<s.ptype, s.pvalue, s.ptraceback>>

\* Py_XINCREF (n = 1) or Py_XDECREF (n = -1) of each of three handles.
AdjustAll(c, hs, n) == Adjust(Adjust(Adjust(c, hs[1], n), hs[2], n), hs[3], n)

\* Dropping a record releases every handle it owns.
drop_refs(self, c) == AdjustAll(c, Owned(self), -1)

\* new: ty.into() takes a reference once the assertion has passed.
new_refs(T, h, c) ==
  IF new(T, NoBox, h).exit = "return" THEN Adjust(c, T, 1) ELSE c

\* from_value: ty.into() takes a reference and the value is moved in, a
\* Value with the reference to its object that the caller took for it; a
\* failed assertion drops the value.
from_value_refs(T, value, h, c) ==
  IF from_value(T, value, h).exit = "return"
  THEN Adjust(IF value.tag = "Value" THEN Adjust(c, value.ob, 1) ELSE c, T, 1)
  ELSE c

\* from_instance: from_borrowed_ptr and into() each take a reference.
from_instance_refs(obj, h, c) ==
  IF PyExceptionInstance_Check(obj)
  THEN Adjust(Adjust(c, PyExceptionInstance_Class(obj), 1), obj, 1)
  ELSE IF PyExceptionClass_Check(obj) THEN Adjust(c, obj, 1)
  ELSE Adjust(c, TypeObject("TypeError"), 1)

\* restore: the object a producer hands back comes with one reference;
\* into_ptr hands the record's references to PyErr_Restore, which steals
\* them and releases what was pending.  When the producer panics the
\* unwind drops ptype and ptraceback.
restore_refs(self, h, c) ==
  LET r == CASE self.pvalue.tag = "None"     -> [h |-> h, ob |-> NULL, ok |-> TRUE]
             [] self.pvalue.tag = "Value"    -> [h |-> h, ob |-> self.pvalue.ob, ok |-> TRUE]
             [] self.pvalue.tag = "ToArgs"   -> arguments(self.pvalue.boxed, h)
             [] self.pvalue.tag = "ToObject" -> to_object(self.pvalue.boxed, h)
      c1 == IF self.pvalue.tag \in {"ToArgs", "ToObject"}
            THEN Adjust(c, r.ob, 1) ELSE c
  IN IF ~r.ok THEN Adjust(Adjust(c, self.ptype, -1), self.ptraceback, -1)
     ELSE AdjustAll(c1, SlotHandles(r.h.slot), -1)

\* print: PyErr_PrintEx releases the error restore left pending.
print_refs(self, h, c) ==
  LET r == restore(self, h)
  IN IF r.exit # "return" THEN restore_refs(self, h, c)
     ELSE AdjustAll(restore_refs(self, h, c), SlotHandles(r.h.slot), -1)

\* fetch: PyErr_Fetch hands the indicator's references to the caller and
\* new_from_ffi_tuple owns them; for a null type it takes a reference to
\* SystemError.
fetch_refs(h, c) ==
  LET f  == PyErr_Fetch(h)
      c1 == IF f.ptype = NULL THEN Adjust(c, TypeObject("SystemError"), 1)
            ELSE c
  IN IF f.ptype = PanicException_type_object
     THEN print_refs(new_from_ffi_tuple(f.ptype, f.pvalue, f.ptraceback), f.h, c1)
     ELSE c1

\* PyErr_NormalizeException on the in/out triple: it takes a reference to
\* None for a null value, exchanges the type for the class of the instance,
\* or exchanges the value for the new instance; when the constructor fails
\* it releases type and value, and the error fetched in their place (which
\* replaced what was pending) comes with its own references.
PyErr_NormalizeException_refs(h, ptype, pvalue, ptraceback, c) ==
  LET n == PyErr_NormalizeException(h, ptype, pvalue, ptraceback)
      value == IF pvalue = NULL THEN Py_None ELSE pvalue
  IN IF ~PyExceptionClass_Check(ptype)
     THEN (IF pvalue = NULL THEN Adjust(c, Py_None, 1) ELSE c)
     ELSE IF PyExceptionInstance_Check(value) /\ IsSubclass(value.cls, ptype.cls)
     THEN Adjust(Adjust(c, n.ptype, 1), ptype, -1)
     ELSE IF ConstructorAccepts(ptype.cls, value)
     THEN Adjust(Adjust(c, n.pvalue, 1), pvalue, -1)
     ELSE Adjust(Adjust(
            AdjustAll(Adjust(Adjust(c, ptype, -1), pvalue, -1),
                      SlotHandles(h.slot), -1),
            n.ptype, 1), n.pvalue, 1)

\* into_normalized: when the producer panics the unwind drops ptype and
\* ptraceback, which the record was destructured into.
into_normalized_refs(self, h, c) ==
  LET r == CASE self.pvalue.tag = "None"     -> [h |-> h, ob |-> NULL, ok |-> TRUE]
             [] self.pvalue.tag = "Value"    -> [h |-> h, ob |-> self.pvalue.ob, ok |-> TRUE]
             [] self.pvalue.tag = "ToArgs"   -> arguments(self.pvalue.boxed, h)
             [] self.pvalue.tag = "ToObject" -> to_object(self.pvalue.boxed, h)
      c1 == IF self.pvalue.tag \in {"ToArgs", "ToObject"}
            THEN Adjust(c, r.ob, 1) ELSE c
  IN IF ~r.ok THEN Adjust(Adjust(c, self.ptype, -1), self.ptraceback, -1)
     ELSE PyErr_NormalizeException_refs(r.h, self.ptype, r.ob, self.ptraceback, c1)

\* clone_ref: the value is cloned or produced first, then the traceback and
\* the type are cloned.
clone_ref_refs(self, h, c) ==
  LET res == clone_ref(self, h)
  IN IF res.exit # "return" THEN c ELSE AdjustAll(c, Owned(res.ret[1]), 1)

\* instance: normalize in place, a reference to the instance (or to None)
\* for the caller, and the record dropped.
instance(self, h) ==
  LET n == normalize(self, h)
  IN IF n.exit # "return" THEN n
     ELSE [n EXCEPT !.ret = <<IF n.ret[1].pvalue.tag = "Value"
                               THEN n.ret[1].pvalue.ob ELSE Py_None>>]

\* When normalize unwinds inside instance, the unwind drops self, whose
\* bits are those of the record into_normalized has already dropped.
instance_refs(self, h, c) ==
  LET n  == normalize(self, h)
      c1 == into_normalized_refs(self, h, c)
  IN IF n.exit # "return" THEN drop_refs(self, c1)
     ELSE drop_refs(n.ret[1], Adjust(c1, instance(self, h).ret[1], 1))

\* ToPyObject for PyErr, IntoPy<PyObject> for &PyErr.
PyErr_to_object(self, h) ==
  LET cloned == clone_ref(self, h)
  IN IF cloned.exit # "return" THEN cloned
     ELSE instance(cloned.ret[1], cloned.h)

PyErr_to_object_refs(self, h, c) ==
  LET cloned == clone_ref(self, h)
  IN IF cloned.exit # "return" THEN c
     ELSE instance_refs(cloned.ret[1], cloned.h, clone_ref_refs(self, h, c))

\* The references records and the indicator hold in the current state.
Owners ==
  LET held == IF err = <<>> THEN NoRefs ELSE AdjustAll(NoRefs, Owned(err[1]), 1)
  IN AdjustAll(held, SlotHandles(slot), 1)

\* One call of the program: its effect on the interpreter, the record the
\* program holds afterwards (cell), and the reference counts afterwards (c).
\* A record whose handles were released while it still holds them must not
\* be used again: the program is followed up to that state and no further.
\* Of the call before the last, the name, the record and the calls made are
\* kept when the record was a lazy one.
Own(op, obj, arg, res, cell, c) ==
  /\ rc = Owners
  /\ Effect(res)
  /\ err' = cell
  /\ rc' = c
  /\ hist' = <<NoEntry,
               IF hist[3].arg # <<>>
                    /\ hist[3].arg[1].pvalue.tag \in {"ToArgs", "ToObject"}
               THEN [NoEntry EXCEPT !.op = hist[3].op, !.arg = hist[3].arg,
                                    !.exit = hist[3].exit,
                                    !.calls = hist[3].calls]
               ELSE NoEntry,
               Entry(op, obj, arg, res)>>
  /\ UNCHANGED <<gil, pymodule>>

OwnNew ==
  \E T \in {TypeObject("UnicodeDecodeError"), TypeObject("int")},
     V \in {RustStr("new panic"), PanickingBox} :
    LET res == new(T, V, Host)
        \* the record the new one replaces is dropped
        c   == IF err = <<>> THEN rc ELSE drop_refs(err[1], rc)
    IN Own("new", T, <<>>, res, IF res.exit = "return" THEN res.ret ELSE err,
           IF res.exit = "return" THEN new_refs(T, Host, c) ELSE rc)

OwnFromValue ==
  \E T \in {TypeObject("OSError")},
     value \in {PyErrValue_None, PyErrValue_Value(PyString("new panic", 0)),
                PyErrValue_ToArgs(IoError("entity not found"))} :
    LET res == from_value(T, value, Host)
        c   == IF err = <<>> THEN rc ELSE drop_refs(err[1], rc)
    IN Own("from_value", T, <<>>, res,
           IF res.exit = "return" THEN res.ret ELSE err,
           IF res.exit = "return" THEN from_value_refs(T, value, Host, c)
           ELSE rc)

OwnFromInstance ==
  \E obj \in LiveObjects :
    LET res == from_instance(obj, Host)
        c   == IF err = <<>> THEN rc ELSE drop_refs(err[1], rc)
    IN Own("from_instance", obj, <<>>, res, res.ret,
           from_instance_refs(obj, Host, c))

\* The program holds the fetched record from then on.
OwnFetch ==
  LET res == fetch(Host)
      c   == IF err = <<>> THEN rc ELSE drop_refs(err[1], rc)
  IN Own("fetch", NULL, <<>>, res,
         IF res.exit = "return" THEN res.ret ELSE err,
         fetch_refs(Host, IF res.exit = "return" THEN c ELSE rc))

OwnRestore ==
  /\ err # <<>>
  /\ Own("restore", NULL, err, restore(err[1], Host), <<>>,
         restore_refs(err[1], Host, rc))

OwnPrint ==
  /\ err # <<>>
  /\ Own("print", NULL, err, print(err[1], Host), <<>>,
         print_refs(err[1], Host, rc))

\* What normalize leaves in the caller's cell: the record ptr::write put
\* there, or, when into_normalized unwound before the write, the bits
\* ptr::read copied the record from.
OwnNormalize ==
  /\ err # <<>>
  /\ LET res == normalize(err[1], Host)
     IN Own("normalize", NULL, err, res,
            IF res.exit = "return" THEN res.ret ELSE err,
            into_normalized_refs(err[1], Host, rc))

\* The program goes on with the original (the clone is dropped) or with
\* the clone (the original is).
OwnCloneRef ==
  /\ err # <<>>
  /\ LET res == clone_ref(err[1], Host)
         c   == clone_ref_refs(err[1], Host, rc)
     IN \E keep \in {"original", "clone"} :
          IF res.exit # "return" THEN Own("clone_ref", NULL, err, res, err, c)
          ELSE IF keep = "clone"
          THEN Own("clone_ref", NULL, err, res, res.ret, drop_refs(err[1], c))
          ELSE Own("clone_ref", NULL, err, res, err, drop_refs(res.ret[1], c))

\* The object handed back is dropped at once.
OwnToObject ==
  /\ err # <<>>
  /\ LET res == PyErr_to_object(err[1], Host)
         c   == PyErr_to_object_refs(err[1], Host, rc)
     IN Own("to_object", NULL, err, res, err,
            IF res.exit = "return" THEN Adjust(c, res.ret[1], -1) ELSE c)

OwnDrop ==
  /\ err # <<>>
  /\ Own("drop", NULL, err, Returned(Host, <<>>), <<>>, drop_refs(err[1], rc))

\* Interpreter code raising: the indicator takes references to the new
\* error and releases the one that was pending.
OwnRaise ==
  \E t \in Raised :
    Own("raise", NULL, <<>>, Returned([Host EXCEPT !.slot = t], <<>>), err,
        AdjustAll(AdjustAll(rc, SlotHandles(slot), -1), SlotHandles(t), 1))

NextOwn ==
  \/ OwnNew
  \/ OwnFromValue
  \/ OwnFromInstance
  \/ OwnFetch
  \/ OwnRestore
  \/ OwnPrint
  \/ OwnNormalize
  \/ OwnCloneRef
  \/ OwnToObject
  \/ OwnDrop
  \/ OwnRaise

SpecOwn == Init /\ [][NextOwn]_vars


(***************************************************************************)
(* Threads.  The interpreter lock is the interpreter's: a thread has a     *)
(* Python token only while it holds the lock, and every operation that     *)
(* takes py: Python is a step of the thread holding it.  Each thread has a *)
(* record of its own (gil.held), gil.holder is the thread holding the lock *)
(* (0: nobody), and gil.window[t] says that thread t has                   *)
(* fetched and has since neither given up the lock nor made another call   *)
(* that sets or takes the pending error.                                   *)
(***************************************************************************)
acquire_gil(t) ==
  /\ gil.holder = 0
  /\ gil' = [gil EXCEPT !.holder = t, !.actor = t, !.inWindow = FALSE]
  /\ hist' = <<NoEntry, NoEntry, Entry("acquire_gil", NULL, <<>>, Returned(Host, <<>>))>>
  /\ UNCHANGED <<slot, next, err, rc, pymodule>>

\* The GILGuard is dropped.
release_gil(t) ==
  /\ gil.holder = t
  /\ gil' = [gil EXCEPT !.holder = 0, !.window[t] = FALSE, !.actor = t,
                        !.inWindow = FALSE]
  /\ hist' = <<NoEntry, NoEntry, Entry("release_gil", NULL, <<>>, Returned(Host, <<>>))>>
  /\ UNCHANGED <<slot, next, err, rc, pymodule>>

\* One call of thread t that takes py: Python; cell is the record the
\* thread holds afterwards, win whether it is in its window afterwards.
WithToken(op, t, res, cell, win) ==
  /\ gil.holder = t
  /\ Effect(res)
  /\ gil' = [gil EXCEPT !.held[t] = cell, !.window[t] = win, !.actor = t,
                        !.inWindow = gil.window[t]]
  /\ hist' = <<NoEntry, NoEntry, Entry(op, NULL, gil.held[t], res)>>
  /\ UNCHANGED <<err, rc, pymodule>>

ThreadFetch(t) ==
  LET res == fetch(Host)
  IN WithToken("fetch", t, res,
               IF res.exit = "return" THEN res.ret ELSE gil.held[t],
               res.exit = "return")

ThreadRestore(t) ==
  /\ gil.held[t] # <<>>
  /\ WithToken("restore", t, restore(gil.held[t][1], Host), <<>>, FALSE)

ThreadPrint(t) ==
  /\ gil.held[t] # <<>>
  /\ WithToken("print", t, print(gil.held[t][1], Host), <<>>, FALSE)

ThreadNormalize(t) ==
  /\ gil.held[t] # <<>>
  /\ LET res == normalize(gil.held[t][1], Host)
     IN WithToken("normalize", t, res,
                  IF res.exit = "return" THEN res.ret ELSE gil.held[t],
                  gil.window[t])

\* Interpreter code that thread t runs raises.
ThreadRaise(t) ==
  \E e \in Raised :
    WithToken("raise", t, Returned([Host EXCEPT !.slot = e], <<>>),
              gil.held[t], FALSE)

\* A record goes out of scope in its thread, with or without the lock.
ThreadDrop(t) ==
  /\ gil.held[t] # <<>>
  /\ gil' = [gil EXCEPT !.held[t] = <<>>, !.actor = t, !.inWindow = FALSE]
  /\ hist' = <<NoEntry, NoEntry, Entry("drop", NULL, gil.held[t], Returned(Host, <<>>))>>
  /\ UNCHANGED <<slot, next, err, rc, pymodule>>

NextThreads ==
  \E t \in Threads :
    \/ acquire_gil(t)
    \/ release_gil(t)
    \/ ThreadFetch(t)
    \/ ThreadRestore(t)
    \/ ThreadPrint(t)
    \/ ThreadNormalize(t)
    \/ ThreadRaise(t)
    \/ ThreadDrop(t)

SpecThreads == Init /\ [][NextThreads]_vars

(***************************************************************************)
(* Properties.                                                             *)
(***************************************************************************)
Last == hist[3]

Prev == hist[2]

Prev2 == hist[1]

\* The text a record's value decodes to once it is realised: of a lazy
\* value, the text of the object its producer makes.
Message(r) ==
  CASE r.pvalue.tag = "None"     -> [ok |-> FALSE, text |-> ""]
    [] r.pvalue.tag = "Value"    -> extract_String(r.pvalue.ob)
    [] r.pvalue.tag = "ToArgs"   ->
         extract_String(arguments(r.pvalue.boxed, Host).ob)
    [] r.pvalue.tag = "ToObject" ->
         extract_String(to_object(r.pvalue.boxed, Host).ob)

\* Same exception kind and, where r's value decodes as text, same message.
Equivalent(f, r) ==
  /\ f.ptype = r.ptype
  /\ Message(r).ok => Message(f) = Message(r)

RoundTrip ==
  /\ Prev2.op = "fetch"
  /\ Prev.op = "restore"
  /\ Last.op = "fetch"

\* C1 as claimed: for every record r, after fetch(); restore(r); fetch()
\* the last fetch returns a record equivalent to r.
C1_RoundTripAnyType ==
  RoundTrip =>
    /\ Last.exit = "return"
    /\ Equivalent(Last.ret[1], Prev.arg[1])

\* C1 as amended: for every record r whose type is not the sentinel panic
\* type, after fetch(); restore(r); fetch() the last fetch returns a record
\* equivalent to r (same type; same message where r's value decodes as
\* text); for a record of the sentinel type the last fetch unwinds instead.
C1_RoundTrip ==
  RoundTrip =>
    IF Prev.arg[1].ptype # TypeObject("PanicException")
    THEN /\ Last.exit = "return"
         /\ Equivalent(Last.ret[1], Prev.arg[1])
    ELSE Last.exit = "unwind" /\ Last.ret = <<>>

C1_Witness ==
  /\ RoundTrip
  /\ Prev.arg[1].pvalue.tag = "ToArgs"
  /\ Prev.arg[1].ptype = TypeObject("OSError")
  /\ Last.exit = "return"
  /\ Message(Last.ret[1]) = [ok |-> TRUE, text |-> "entity not found"]

\* C2: immediately after any call of fetch the global error indicator is
\* empty, whether fetch returned a record or left by the sentinel unwind.
C2_SlotEmptyAfterFetch ==
  Last.op = "fetch" => ~occurred(Host) /\ slot = EmptySlot

C2_Witness ==
  /\ Last.op = "fetch"
  /\ Last.exit = "unwind"
  /\ Last.pre # EmptySlot
  /\ slot = EmptySlot

\* C3: fetch with nothing pending returns the record (SystemError, no value,
\* no traceback) and neither unwinds nor panics.
C3_FetchEmpty ==
  (Last.op = "fetch" /\ Last.pre = EmptySlot) =>
    /\ Last.exit = "return"
    /\ Last.ret = <<PyErr(TypeObject("SystemError"), PyErrValue_None, NULL)>>

C3_Witness ==
  /\ Last.op = "fetch"
  /\ Last.pre = EmptySlot
  /\ Last.ret # <<>>
  /\ Last.ret[1].ptype = TypeObject("SystemError")

\* C4: restoring a record of the sentinel panic type and then fetching
\* unwinds; the unwind carries the text of the record's value when that
\* value decodes as text and "Unwrapped panic from Python code" otherwise.
C4_PanicResumes ==
  (Prev.op = "restore" /\ Last.op = "fetch"
     /\ Prev.arg[1].ptype = TypeObject("PanicException")) =>
    /\ Last.exit = "unwind"
    /\ Last.ret = <<>>
    /\ Last.msg = IF Message(Prev.arg[1]).ok THEN Message(Prev.arg[1]).text
                  ELSE "Unwrapped panic from Python code"

C4_Witness ==
  /\ Prev.op = "restore"
  /\ Last.op = "fetch"
  /\ Prev.arg[1].ptype = TypeObject("PanicException")
  /\ Prev.arg[1].pvalue.tag = "ToObject"
  /\ Last.exit = "unwind"
  /\ Last.msg = "new panic"

\* The other half of C4's case: a sentinel record without a text value.
C4_DefaultMessageReached ==
  /\ Prev.op = "restore"
  /\ Last.op = "fetch"
  /\ Prev.arg[1].pvalue.tag = "None"
  /\ Last.msg = "Unwrapped panic from Python code"

\* C5: in every reachable state the type of every PyErr is an exception
\* class.
C5_TypeIsExceptionClass ==
  /\ err # <<>> => PyExceptionClass_Check(err[1].ptype)
  /\ Last.ret # <<>> => PyExceptionClass_Check(Last.ret[1].ptype)

\* The number of times a call made the interpreter call or producer named.
CountOf(calls, name) == Cardinality({i \in DOMAIN calls : calls[i] = name})

\* C6: restore(r) consumes r and leaves the indicator set to r's type, r's
\* traceback and r's value realised (None: null; Value: its handle; lazy: the
\* object its producer makes, invoked once), replacing whatever was pending,
\* with one PyErr_Restore call.
C6_RestoreSetsSlot ==
  Last.op = "restore" =>
    LET r == Last.arg[1]
        before == Before(Last)
    IN /\ Last.exit = "return"
       /\ err = <<>>
       /\ occurred(Host)
       /\ slot.ptype = r.ptype
       /\ slot.ptraceback = r.ptraceback
       /\ slot.pvalue =
            CASE r.pvalue.tag = "None"     -> NULL
              [] r.pvalue.tag = "Value"    -> r.pvalue.ob
              [] r.pvalue.tag = "ToArgs"   -> arguments(r.pvalue.boxed, before).ob
              [] r.pvalue.tag = "ToObject" -> to_object(r.pvalue.boxed, before).ob
       /\ CountOf(Last.calls, "PyErr_Restore") = 1
       /\ CountOf(Last.calls, "arguments") =
            IF r.pvalue.tag = "ToArgs" THEN 1 ELSE 0
       /\ CountOf(Last.calls, "to_object") =
            IF r.pvalue.tag = "ToObject" THEN 1 ELSE 0
       /\ Len(Last.calls) = IF r.pvalue.tag \in {"ToArgs", "ToObject"} THEN 2
                            ELSE 1

C6_Witness ==
  /\ Last.op = "restore"
  /\ Last.pre.ptype = TypeObject("FileNotFoundError")
  /\ Last.arg[1].pvalue.tag = "ToArgs"
  /\ slot.ptype = TypeObject("OSError")
  /\ slot.pvalue.kind = "str"
  /\ slot.pvalue.text = "entity not found"

\* A restored record that carries a traceback.
C6_TracebackReached ==
  /\ Last.op = "restore"
  /\ Last.arg[1].ptraceback # NULL
  /\ slot.ptraceback = Last.arg[1].ptraceback

TwiceNormalized == Prev.op = "normalize" /\ Last.op = "normalize"

\* Whether r's value is an exception instance whose class is exactly /
\* a proper subclass of r's type.
HoldsExactInstance(r) ==
  /\ r.pvalue.tag = "Value"
  /\ PyExceptionInstance_Check(r.pvalue.ob)
  /\ PyExceptionInstance_Class(r.pvalue.ob) = r.ptype

HoldsSubclassInstance(r) ==
  /\ r.pvalue.tag = "Value"
  /\ PyExceptionInstance_Check(r.pvalue.ob)
  /\ PyExceptionClass_Check(r.ptype)
  /\ IsSubclass(r.pvalue.ob.cls, r.ptype.cls)

\* C7 as claimed: normalizing twice gives the record normalizing once gave,
\* and normalizing a record whose value is already an instance of its type
\* changes nothing.
C7_NormalizeNoOpOnInstance ==
  /\ TwiceNormalized => Last.ret = Last.arg
  /\ (Last.op = "normalize" /\ HoldsSubclassInstance(Last.arg[1])) =>
       (Last.ret = Last.arg /\ slot = Last.pre)

\* C7 as amended: normalizing twice gives the record (same type, value and
\* traceback handles) normalizing once gave; normalizing a record whose
\* value is an instance of exactly its type changes nothing, and when the
\* value is an instance of a proper subclass only the type changes, to the
\* class of the instance.
C7_NormalizeIdempotent ==
  /\ TwiceNormalized => Last.ret = Last.arg
  /\ (Last.op = "normalize" /\ HoldsExactInstance(Last.arg[1])) =>
       (Last.ret = Last.arg /\ slot = Last.pre)
  /\ (Last.op = "normalize" /\ HoldsSubclassInstance(Last.arg[1])) =>
       /\ Last.ret[1].ptype = PyExceptionInstance_Class(Last.arg[1].pvalue.ob)
       /\ Last.ret[1].pvalue = Last.arg[1].pvalue
       /\ Last.ret[1].ptraceback = Last.arg[1].ptraceback
       /\ slot = Last.pre

\* A lazy record normalized twice: the first call made the instance.
C7_Witness ==
  /\ TwiceNormalized
  /\ next = 2
  /\ Last.calls = <<"PyErr_NormalizeException">>
  /\ Last.ret = Last.arg
  /\ Last.ret[1].pvalue.ob = ExcInstance("OSError", "new panic", 2)

\* The triple PyErr_NormalizeException hands back for r's realised fields.
HostNormalized(r, h) ==
  LET ob == CASE r.pvalue.tag = "None"     -> [h |-> h, ob |-> NULL, ok |-> TRUE]
              [] r.pvalue.tag = "Value"    -> [h |-> h, ob |-> r.pvalue.ob]
              [] r.pvalue.tag = "ToArgs"   -> arguments(r.pvalue.boxed, h)
              [] r.pvalue.tag = "ToObject" -> to_object(r.pvalue.boxed, h)
  IN PyErr_NormalizeException(ob.h, r.ptype, ob.ob, r.ptraceback)

\* C8: after normalize the record's value is an instance of the record's
\* type, and the record's fields are the triple the interpreter handed back.
C8_NormalizedIsInstance ==
  Last.op = "normalize" =>
    LET n == Last.ret[1]
        t == HostNormalized(Last.arg[1], Before(Last))
    IN /\ n.pvalue.tag = "Value"
       /\ PyExceptionInstance_Check(n.pvalue.ob)
       /\ PyExceptionClass_Check(n.ptype)
       /\ IsSubclass(n.pvalue.ob.cls, n.ptype.cls)
       /\ n.ptype = t.ptype
       /\ n.pvalue.ob = t.pvalue
       /\ n.ptraceback = t.ptraceback
       /\ slot = t.h.slot

\* C8 restricted to records whose type is an exception class.
NormalizedIsInstanceOfExceptionClass ==
  (Last.op = "normalize" /\ PyExceptionClass_Check(Last.arg[1].ptype)) =>
    LET n == Last.ret[1]
        t == HostNormalized(Last.arg[1], Before(Last))
    IN /\ n.pvalue.tag = "Value"
       /\ PyExceptionInstance_Check(n.pvalue.ob)
       /\ PyExceptionClass_Check(n.ptype)
       /\ IsSubclass(n.pvalue.ob.cls, n.ptype.cls)
       /\ n.ptype = t.ptype
       /\ n.pvalue.ob = t.pvalue
       /\ n.ptraceback = t.ptraceback

\* C9: from_instance(obj) gives (class of obj, Value(obj)) for an exception
\* instance, (obj, None) for an exception class, and otherwise a TypeError
\* whose lazy value makes "exceptions must derive from BaseException"; the
\* traceback is absent in all three.
C9_FromInstanceDispatch ==
  Last.op = "from_instance" =>
    LET obj == Last.obj
        r   == Last.ret[1]
    IN /\ Last.exit = "return"
       /\ r.ptraceback = NULL
       /\ IF PyExceptionInstance_Check(obj)
          THEN r.ptype = PyExceptionInstance_Class(obj)
               /\ r.pvalue = PyErrValue_Value(obj)
          ELSE IF PyExceptionClass_Check(obj)
          THEN r.ptype = obj /\ r.pvalue = PyErrValue_None
          ELSE /\ r.ptype = TypeObject("TypeError")
               /\ r.pvalue.tag \in {"ToArgs", "ToObject"}
               /\ Message(r) = [ok |-> TRUE,
                                text |-> "exceptions must derive from BaseException"]

C9_Witness ==
  /\ Last.op = "from_instance"
  /\ Last.obj.kind = "str"
  /\ err # <<>>
  /\ err[1].ptype = TypeObject("TypeError")
  /\ err[1].pvalue.tag = "ToObject"

C11_CloneTypeAndTraceback ==
  Last.op = "clone_ref" =>
    LET r == Last.arg[1]
        c == Last.ret[1]
    IN /\ c.ptype = r.ptype
       /\ c.ptraceback = r.ptraceback
       /\ matches(c, r.ptype)

C11_Witness ==
  /\ Last.op = "clone_ref"
  /\ Last.arg[1].ptraceback = PyTraceBack(0)
  /\ Last.ret[1].ptraceback = PyTraceBack(0)
  /\ Last.ret[1].ptype = TypeObject("FileNotFoundError")
  /\ matches(Last.ret[1], TypeObject("FileNotFoundError"))
  /\ err = Last.ret

\* The exception class spec 4.5 maps a Rust error to.
ClaimedTarget(e) ==
  IF e.rs = "io::Error"
  THEN CASE e.kind = "NotFound"          -> "FileNotFoundError"
         [] e.kind = "BrokenPipe"        -> "BrokenPipeError"
         [] e.kind = "ConnectionRefused" -> "ConnectionRefusedError"
         [] e.kind = "ConnectionAborted" -> "ConnectionAbortedError"
         [] e.kind = "ConnectionReset"   -> "ConnectionResetError"
         [] e.kind = "Interrupted"       -> "InterruptedError"
         [] e.kind = "WouldBlock"        -> "BlockingIOError"
         [] e.kind = "TimedOut"          -> "TimeoutError"
         [] OTHER                        -> "OSError"
  ELSE IF e.rs = "io::IntoInnerError" THEN "OSError"
  ELSE IF e.rs \in {"IntoStringError", "Utf8Error", "FromUtf8Error",
                    "FromUtf16Error", "DecodeUtf16Error"}
  THEN "UnicodeDecodeError"
  ELSE "ValueError"

ConvertedThenNormalized == Prev.op = "from" /\ Last.op = "normalize"

\* C12: a record converted from a Rust error and then normalized is an
\* instance of the exception class the error's kind is mapped to.
C12_ForeignKindAfterNormalize ==
  ConvertedThenNormalized =>
    is_instance(Last.ret[1], TypeObject(ClaimedTarget(Prev.arg[1])))

\* C12 for every error kind but the text-decoding failures.
ForeignKindUnlessDecodeError ==
  (ConvertedThenNormalized /\ ClaimedTarget(Prev.arg[1]) # "UnicodeDecodeError")
    => is_instance(Last.ret[1], TypeObject(ClaimedTarget(Prev.arg[1])))

\* The converted record, before it is normalized, has the mapped type.
ForeignKindAtConversion ==
  Last.op = "from" =>
    /\ Last.exit = "return"
    /\ is_instance(Last.ret[1], TypeObject(ClaimedTarget(Last.arg[1])))

ForeignKindReached ==
  /\ ConvertedThenNormalized
  /\ Prev.arg[1].kind = "NotFound"
  /\ err[1].ptype = TypeObject("FileNotFoundError")
  /\ err[1].pvalue.ob.kind = "inst"

\* A decoding failure, converted and normalized, is a TypeError.
DecodeErrorNormalizedToTypeError ==
  /\ ConvertedThenNormalized
  /\ Prev.arg[1].rs = "Utf8Error"
  /\ err[1].ptype = TypeObject("TypeError")

\* The message a normalized record's exception instance reads.
DecodedMessage(r) ==
  IF r.pvalue.tag = "Value" /\ r.pvalue.ob.kind \in {"inst", "str"}
  THEN [ok |-> TRUE, text |-> r.pvalue.ob.text]
  ELSE [ok |-> FALSE, text |-> ""]

\* The message spec 4.5 gives a converted error: its own description, and
\* the fixed text for the error that never occurs.
ClaimedMessage(e) ==
  IF e.rs = "Infallible" THEN "Infalliable!" ELSE e.text

\* C13: the message of a record converted from a Rust error and then
\* normalized is the error's own description; for the error that never
\* occurs it is "Infalliable!".
C13_ForeignMessageAfterNormalize ==
  ConvertedThenNormalized =>
    DecodedMessage(Last.ret[1]) =
      [ok |-> TRUE, text |-> ClaimedMessage(Prev.arg[1])]

\* C13 for every error kind but the text-decoding failures.
ForeignMessageUnlessDecodeError ==
  (ConvertedThenNormalized /\ ClaimedTarget(Prev.arg[1]) # "UnicodeDecodeError")
    => DecodedMessage(Last.ret[1]) =
         [ok |-> TRUE, text |-> ClaimedMessage(Prev.arg[1])]

ForeignMessageReached ==
  /\ ConvertedThenNormalized
  /\ Prev.arg[1] = IoErrorOfKind("NotFound", "entity not found")
  /\ is_instance(err[1], TypeObject("FileNotFoundError"))
  /\ DecodedMessage(err[1]).text = "entity not found"

InfallibleMessageReached ==
  /\ ConvertedThenNormalized
  /\ Prev.arg[1] = RustError("Infallible", "")
  /\ DecodedMessage(err[1]).text = "Infalliable!"

\* The message a decoding failure ends with is the constructor's complaint.
DecodeErrorMessageLost ==
  /\ ConvertedThenNormalized
  /\ Prev.arg[1].rs = "FromUtf8Error"
  /\ DecodedMessage(err[1]).text = "function takes exactly 5 arguments"

\* The index (from 1) of the first zero byte of s.
FirstNul(s) == CHOOSE i \in DOMAIN s : s[i] = 0 /\ \A j \in 1..(i - 1) : s[j] # 0

HasNul(s) == \E i \in DOMAIN s : s[i] = 0

\* The last call was given a string with a zero byte in it.
GivenNul == \E i \in DOMAIN Last.arg[1].strs : HasNul(Last.arg[1].strs[i])

ReturnsValueError ==
  /\ Last.exit = "return"
  /\ Last.ret # <<>>
  /\ is_instance(Last.ret[1], TypeObject("ValueError"))
  /\ slot = Last.pre
  /\ Last.calls = <<>>

NulByteInNewTypePanics ==
  /\ Last.op = "new_type"
  /\ GivenNul
  /\ Last.exit = "panic"
  /\ Last.msg = "Failed to initialize nul terminated exception name"

\* The interpreter failures of the last call that the call itself handles:
\* index makes the __all__ list when the attribute is missing.
Recovered ==
  IF /\ Last.op \in {"index", "add", "add_wrapped"}
     /\ CountOf(Last.calls, "getattr(__all__)") = 1
     /\ Last.arg[1].outcomes[1] = HostFail(AttributeErrorRaised)
  THEN 1 ELSE 0

\* The last call left non-locally only by fetch meeting the sentinel, and
\* it returned Ok only if nothing it did failed.
FailuresAreReturned ==
  /\ Last.exit \in {"return", "unwind"}
  /\ Last.exit = "unwind" =>
       /\ CountOf(Last.calls, "--- PyO3 is resuming a panic after fetching a PanicException from Python. ---") = 1
       /\ Last.calls[Len(Last.calls)] = "PyErr_PrintEx(0)"
  /\ (Last.exit = "return" /\ Last.ret = <<>>) =>
       /\ ~GivenNul
       /\ CountOf(Last.calls, "raised") = Recovered
  /\ (Last.exit = "return" /\ Last.ret # <<>>) =>
       IF CountOf(Last.calls, "raised") > 0 THEN slot = EmptySlot
       ELSE slot = Last.pre \/ Last.op = "error_on_minusone"

\* C15: of new_type, warn, error_on_minusone, panic_after_error and
\* PyModule's constructors, index, add, add_wrapped and call, none leaves
\* non-locally except through fetch meeting the sentinel, and every failure
\* is returned to the caller as an error value.
C15_FailuresAreReturned ==
  Last.op \in {"new_type", "warn", "error_on_minusone", "panic_after_error",
               "PyModule::new", "PyModule::import", "PyModule::from_code",
               "index", "add", "add_wrapped", "call"}
    => FailuresAreReturned

\* C15 for the operations that neither expect nor unwrap a result.
FailuresAreReturnedWithoutExpect ==
  Last.op \in {"warn", "error_on_minusone", "PyModule::new",
               "PyModule::import", "PyModule::from_code", "index", "call"}
    => FailuresAreReturned

FailureReturnedReached ==
  /\ Last.op = "index"
  /\ Last.calls = <<"getattr(__all__)", "raised", "PyErr_Fetch",
                    "setattr(__all__)", "raised", "PyErr_Fetch">>
  /\ err # <<>>
  /\ err[1].ptype = TypeObject("OSError")

AddPanicsReached ==
  /\ Last.op = "add"
  /\ Last.exit = "panic"
  /\ Last.msg = "could not append __name__ to __all__"

NewTypeDropsFailureReached ==
  /\ Last.op = "new_type"
  /\ Last.exit = "return"
  /\ Last.ret = <<>>
  /\ Last.pre = EmptySlot
  /\ slot # EmptySlot

\* The interpreter calls and stderr lines of fetch on the sentinel path,
\* for a pending value that is / is not null.
SentinelSteps(pvalue) ==
  <<"PyErr_Fetch">>
    \o (IF pvalue = NULL THEN <<>> ELSE <<"extract">>)
    \o <<"--- PyO3 is resuming a panic after fetching a PanicException from Python. ---",
         "Python stack trace below:",
         "PyErr_Restore", "PyErr_PrintEx(0)">>

\* C19: on the sentinel path fetch takes the triple out of the indicator,
\* decodes the message from the value, writes the two fixed lines, prints
\* the record through print (restore, then PyErr_PrintEx(0)), and then
\* unwinds with the message; it does these in this order, allocates nothing
\* and returns no record.
C19_SentinelOrder ==
  (Last.op = "fetch" /\ Last.pre.ptype = TypeObject("PanicException")) =>
    /\ Last.exit = "unwind"
    /\ Last.ret = <<>>
    /\ Last.calls = SentinelSteps(Last.pre.pvalue)
    /\ Last.msg = IF Last.pre.pvalue.kind = "str" THEN Last.pre.pvalue.text
                  ELSE "Unwrapped panic from Python code"
    /\ next = Last.at
    /\ slot = EmptySlot

C19_Witness ==
  /\ Last.op = "fetch"
  /\ Last.pre.ptype = TypeObject("PanicException")
  /\ Last.pre.ptraceback = PyTraceBack(0)
  /\ Len(Last.calls) = 6
  /\ Last.calls[2] = "extract"
  /\ Last.calls[6] = "PyErr_PrintEx(0)"
  /\ Last.msg = "new panic"

\* The references counted for the object o.
RefCount(c, o) == IF o \in DOMAIN c THEN c[o] ELSE 0

Conserved == rc = Owners

IsLazy(r) == r # <<>> /\ r[1].pvalue.tag \in {"ToArgs", "ToObject"}

\* C17: normalize is one transactional step: whatever the record, it
\* returns, the caller's cell holds the normalized record it returned, and
\* the cell holds no handle that was given away.
C17_NormalizeTransactional ==
  Last.op = "normalize" =>
    /\ Last.exit = "return"
    /\ err = Last.ret
    /\ Conserved

\* normalize is transactional for every record whose producer returns.
NormalizeTransactionalUnlessProducerPanics ==
  (Last.op = "normalize" /\ CountOf(Last.calls, "PyErr_NormalizeException") = 1)
    => (Last.exit = "return" /\ err = Last.ret /\ Conserved)

\* The producer panics inside normalize: no interpreter call follows it,
\* the cell keeps the record, and the record's type is no longer counted.
NormalizeUnwoundReached ==
  /\ Last.op = "normalize"
  /\ Last.exit = "panic"
  /\ Last.calls = <<"to_object">>
  /\ err = Last.arg
  /\ RefCount(rc, err[1].ptype) = 0
  /\ RefCount(Owners, err[1].ptype) = 1

\* The calls of the operation e that invoked a lazy producer.
Invocations(e) == CountOf(e.calls, "arguments") + CountOf(e.calls, "to_object")

ProducerOps == {"clone_ref", "normalize", "restore", "to_object"}

\* C18 (as claimed): over two operations on the same lazy record the producer
\* is invoked at most once, and a record whose producer was invoked holds
\* no producer afterwards.
C18_ProducerSingleUse ==
  /\ (Last.op \in ProducerOps /\ Prev.op \in ProducerOps /\ IsLazy(Last.arg)
        /\ Prev.arg = Last.arg)
       => Invocations(Prev) + Invocations(Last) <= 1
  /\ (Last.op \in ProducerOps /\ Invocations(Last) > 0
        /\ Last.exit = "return") => ~IsLazy(err)

\* C18 (amended): each of clone_ref, normalize, restore and the conversion to
\* an object invokes the producer of a lazy record exactly once, and no
\* producer when the record is not lazy.  normalize leaves the evaluated
\* value in the record and restore consumes the record; clone_ref and the
\* conversion give the evaluated value to the clone and leave the producer
\* in the record they were called on.
C18_ProducerOncePerOperation ==
  Last.op \in ProducerOps =>
    /\ Invocations(Last) = IF IsLazy(Last.arg) THEN 1 ELSE 0
    /\ (Last.op = "normalize" /\ Last.exit = "return") => ~IsLazy(err)
    /\ Last.op = "restore" => err = <<>>
    /\ (Last.op = "clone_ref" /\ Last.exit = "return") =>
         /\ ~IsLazy(Last.ret)
         /\ err \in {Last.arg, Last.ret}
    /\ Last.op = "to_object" => err = Last.arg

\* clone_ref evaluated the producer and left it in the record; restore of
\* the same record evaluates it a second time.
C18_Witness ==
  /\ Prev.op = "clone_ref"
  /\ Invocations(Prev) = 1
  /\ Prev.exit = "return"
  /\ Last.op = "restore"
  /\ Last.arg = Prev.arg
  /\ Last.arg[1].pvalue.tag = "ToObject"
  /\ Invocations(Last) = 1
  /\ slot.pvalue = PyString("new panic", 2)

\* The conversion to an object leaves the record lazy.
ConversionKeepsProducerReached ==
  /\ Last.op = "to_object"
  /\ Last.exit = "return"
  /\ Invocations(Last) = 1
  /\ IsLazy(err)

\* C20: the references counted for every object are those that the record
\* the program holds and the error indicator hold.
C20_ReferenceConservation == Conserved

\* Conservation fails only in the state a normalize left by unwinding.
ConservedUnlessNormalizeUnwound ==
  Conserved \/ (Last.op = "normalize" /\ Last.exit = "panic")

\* fetch on the sentinel path, with everything released.
SentinelFetchConservedReached ==
  /\ Last.op = "fetch"
  /\ Last.exit = "unwind"
  /\ Last.pre.ptraceback = PyTraceBack(0)
  /\ err = <<>>
  /\ rc = NoRefs

\* fetch on an empty indicator: the record owns a reference to SystemError.
EmptyFetchConservedReached ==
  /\ Last.op = "fetch"
  /\ Last.pre = EmptySlot
  /\ RefCount(rc, TypeObject("SystemError")) = 1

\* C16: the pending error changes only in a step of the thread that holds
\* the interpreter lock; while a thread is between its fetch and its
\* restore with the lock held throughout, it is the holder and nothing is
\* pending, no call of another thread falls into that time, and the restore
\* finds nothing pending and leaves exactly its record pending.
C16_TokenWindow ==
  /\ [](\A t \in Threads :
          gil.window[t] =>
            /\ gil.holder = t
            /\ slot = EmptySlot
            /\ Last.op \in {"fetch", "restore", "print"} => gil.actor = t)
  /\ []((Last.op = "restore" /\ gil.inWindow) =>
          (Last.pre = EmptySlot /\ slot = restore(Last.arg[1], Before(Last)).h.slot))
  /\ [][slot' # slot => (gil.holder # 0 /\ gil'.actor = gil.holder
                           /\ gil'.holder = gil.holder)]_vars

\* Thread 1 fetched, thread 2 could not get in, and thread 1 restored.
C16_Witness ==
  /\ Last.op = "restore"
  /\ gil.inWindow
  /\ gil.actor = 1
  /\ gil.holder = 1
  /\ gil.held[2] # <<>>
  /\ slot.ptype = TypeObject("FileNotFoundError")

\* C21: print and print_and_set_sys_last_vars take the record from the
\* program, restore it first (the last call restore makes is PyErr_Restore,
\* with the record's type) and only then ask the interpreter to print, which
\* is the one call that follows; on the same record and the same interpreter
\* state the two differ in nothing but the flag of that call, 0 for print
\* and 1 for the variant.
C21_PrintRestoresThenPrints ==
  Last.op \in {"print", "print_and_set_sys_last_vars"} =>
    LET r        == Last.arg[1]
        h        == Before(Last)
        restored == restore(r, h)
        plain    == print(r, h)
        setting  == print_and_set_sys_last_vars(r, h)
        n        == Len(restored.h.calls)
    IN /\ err = <<>>
       /\ Last.exit = "return"
       /\ restored.h.calls[n] = "PyErr_Restore"
       /\ restored.h.slot.ptype = r.ptype
       /\ Last.calls = Append(restored.h.calls,
                              IF Last.op = "print" THEN "PyErr_PrintEx(0)"
                              ELSE "PyErr_PrintEx(1)")
       /\ CountOf(Last.calls, "PyErr_PrintEx(0)")
            + CountOf(Last.calls, "PyErr_PrintEx(1)") = 1
       /\ plain.exit = setting.exit
       /\ plain.ret = setting.ret
       /\ plain.h.slot = setting.h.slot
       /\ plain.h.next = setting.h.next
       /\ SubSeq(plain.h.calls, 1, n) = SubSeq(setting.h.calls, 1, n)
       /\ plain.h.calls[n + 1] = "PyErr_PrintEx(0)"
       /\ setting.h.calls[n + 1] = "PyErr_PrintEx(1)"
       /\ Len(plain.h.calls) = n + 1
       /\ Len(setting.h.calls) = n + 1

\* The variant printed a record whose value restore had to produce first,
\* while another error was pending.
C21_Witness ==
  /\ Last.op = "print_and_set_sys_last_vars"
  /\ Last.arg[1].pvalue.tag = "ToObject"
  /\ Last.pre # EmptySlot
  /\ Len(Last.calls) = 3
  /\ Last.calls[2] = "PyErr_Restore"
  /\ Last.calls[3] = "PyErr_PrintEx(1)"
  /\ slot = EmptySlot

\* What error_on_minusone was given, and the record fetch builds from what
\* was pending before it.
GivenCode == Last.arg[1].flags[1]

PendingRecord ==
  new_from_ffi_tuple(Last.pre.ptype, Last.pre.pvalue, Last.pre.ptraceback)

\* C22 as claimed: error_on_minusone returns Ok and leaves the indicator as
\* it was for every code other than -1; for -1 it returns Err with the
\* record fetched from the indicator (a SystemError record when nothing was
\* pending) and leaves the indicator empty.
C22_ErrorOnMinusOne ==
  Last.op = "error_on_minusone" =>
    IF GivenCode # -1
    THEN Last.exit = "return" /\ Last.ret = <<>> /\ slot = Last.pre
    ELSE /\ Last.exit = "return"
         /\ Last.ret = <<PendingRecord>>
         /\ slot = EmptySlot
         /\ Last.pre = EmptySlot =>
              Last.ret = <<PyErr(TypeObject("SystemError"), PyErrValue_None, NULL)>>

\* C22 as amended: the same, except that for -1 with an error of the
\* sentinel panic type pending it returns nothing and unwinds, resuming the
\* panic, the indicator being left empty as well.
C22_ErrorOnMinusOneUnlessSentinel ==
  Last.op = "error_on_minusone" =>
    IF GivenCode # -1
    THEN Last.exit = "return" /\ Last.ret = <<>> /\ slot = Last.pre
    ELSE IF Last.pre.ptype = PanicException_type_object
    THEN Last.exit = "unwind" /\ Last.ret = <<>> /\ slot = EmptySlot
    ELSE /\ Last.exit = "return"
         /\ Last.ret = <<PendingRecord>>
         /\ slot = EmptySlot
         /\ Last.pre = EmptySlot =>
              Last.ret = <<PyErr(TypeObject("SystemError"), PyErrValue_None, NULL)>>

\* Code -1 with an OSError pending: the record is returned.
C22_Witness ==
  /\ Last.op = "error_on_minusone"
  /\ GivenCode = -1
  /\ Last.pre.ptype = TypeObject("OSError")
  /\ err # <<>>
  /\ err[1].ptype = TypeObject("OSError")
  /\ slot = EmptySlot

\* Code -2 with an error pending: Ok, and the error stays pending.
OtherCodeLeavesPendingReached ==
  /\ Last.op = "error_on_minusone"
  /\ GivenCode = -2
  /\ Last.pre # EmptySlot
  /\ Last.ret = <<>>
  /\ slot = Last.pre

\* Code -1 with nothing pending: a SystemError record.
MinusOneNothingPendingReached ==
  /\ Last.op = "error_on_minusone"
  /\ GivenCode = -1
  /\ Last.pre = EmptySlot
  /\ err # <<>>
  /\ err[1].ptype = TypeObject("SystemError")

\* Code -1 with the sentinel pending: the unwind.
MinusOneSentinelReached ==
  /\ Last.op = "error_on_minusone"
  /\ GivenCode = -1
  /\ Last.exit = "unwind"
  /\ slot = EmptySlot

\* The interpreter state a call of index started from, what index does from
\* there on the outcomes the call met, and the read outcome it met.
IndexResult(e) ==
  index(e.arg[1].outcomes[1], e.arg[1].flags[1], e.arg[1].outcomes[2],
        [slot |-> e.pre, next |-> e.at, calls |-> <<>>, mod |-> [all |-> e.obj]])

ReadOutcome(e) == e.arg[1].outcomes[1]

StoreOutcome(e) == e.arg[1].outcomes[2]

\* The record fetch returns for the error an interpreter call left pending.
RecordOf(t) == new_from_ffi_tuple(t.ptype, t.pvalue, t.ptraceback)

\* index returned Ok with the list l and the module's __all__ is now v.
IndexOk(e, l) ==
  e.exit = "return" /\ e.ret = <<>> /\ IndexResult(e).ok = <<l>>

\* The parts of C23 that need no amendment: a list that is there is
\* returned and stays bound as it was, a non-list gives an error and stays
\* bound, and an index that follows one that made the list returns that
\* same list.
IndexOfBoundAttribute ==
  /\ (Last.op = "index" /\ ReadOutcome(Last).ok /\ Last.obj.kind = "list") =>
       IndexOk(Last, Last.obj) /\ pymodule.all = Last.obj
  /\ (Last.op = "index" /\ ReadOutcome(Last).ok /\ Last.obj.kind # "list") =>
       /\ Last.exit = "return"
       /\ Last.ret # <<>>
       /\ Last.ret[1].ptype = TypeObject("TypeError")
       /\ pymodule.all = Last.obj
  /\ (/\ Prev.op = "index" /\ Prev.obj = NULL
      /\ Prev.exit = "return" /\ Prev.ret = <<>>
      /\ Last.op = "index" /\ ReadOutcome(Last).ok) =>
       /\ IndexResult(Prev).ok = IndexResult(Last).ok
       /\ IndexOk(Last, pymodule.all)
       /\ Last.obj = pymodule.all

\* C23 as claimed: index returns a list that is bound as __all__ unchanged;
\* when the read fails with AttributeError it makes an empty list, binds
\* it as __all__ and returns it, and an index that follows returns that
\* same list; every other read error is returned to the caller as it was
\* raised; a non-list gives an error and is not replaced.
C23_IndexCreatesIfNeeded ==
  /\ IndexOfBoundAttribute
  /\ (Last.op = "index" /\ ReadOutcome(Last) = HostFail(AttributeErrorRaised)) =>
       LET l == PyList("", Last.at + 1)
       IN IndexOk(Last, l) /\ pymodule.all = l
  /\ (/\ Last.op = "index" /\ ~ReadOutcome(Last).ok
      /\ ReadOutcome(Last) # HostFail(AttributeErrorRaised)) =>
       /\ Last.exit = "return"
       /\ Last.ret = <<RecordOf(ReadOutcome(Last).raised)>>
       /\ pymodule.all = Last.obj

\* C23 as amended: the list is bound and returned unless binding it fails,
\* and then the error of the binding is returned and __all__ stays unbound;
\* an error of the sentinel panic type, of the read or of the binding, is
\* not returned: index unwinds, and __all__ stays as it was.
C23_IndexCreatesUnlessStoreFails ==
  /\ IndexOfBoundAttribute
  /\ (Last.op = "index" /\ ReadOutcome(Last) = HostFail(AttributeErrorRaised)) =>
       LET l == PyList("", Last.at + 1)
       IN IF StoreOutcome(Last).ok
          THEN IndexOk(Last, l) /\ pymodule.all = l
          ELSE /\ pymodule.all = NULL
               /\ IF StoreOutcome(Last).raised.ptype = PanicException_type_object
                  THEN Last.exit = "unwind" /\ Last.ret = <<>>
                  ELSE /\ Last.exit = "return"
                       /\ Last.ret = <<RecordOf(StoreOutcome(Last).raised)>>
  /\ (/\ Last.op = "index" /\ ~ReadOutcome(Last).ok
      /\ ReadOutcome(Last) # HostFail(AttributeErrorRaised)) =>
       /\ pymodule.all = Last.obj
       /\ IF ReadOutcome(Last).raised.ptype = PanicException_type_object
          THEN Last.exit = "unwind" /\ Last.ret = <<>>
          ELSE /\ Last.exit = "return"
               /\ Last.ret = <<RecordOf(ReadOutcome(Last).raised)>>

\* index made the list, and the index that followed returned it.
C23_Witness ==
  /\ Prev.op = "index"
  /\ Prev.obj = NULL
  /\ IndexOk(Prev, PyList("", Prev.at + 1))
  /\ Last.op = "index"
  /\ IndexOk(Last, PyList("", Prev.at + 1))
  /\ pymodule.all = PyList("", Prev.at + 1)

\* A list of the interpreter's own was returned as it was.
BoundListReturnedReached ==
  /\ Last.op = "index"
  /\ IndexOk(Last, PyList("f", 0))
  /\ pymodule.all = PyList("f", 0)

\* The binding failed: the error is returned and __all__ is still unbound.
StoreFailedReached ==
  /\ Last.op = "index"
  /\ ReadOutcome(Last) = HostFail(AttributeErrorRaised)
  /\ ~StoreOutcome(Last).ok
  /\ Last.ret # <<>>
  /\ Last.ret[1].ptype = TypeObject("OSError")
  /\ pymodule.all = NULL

\* The read failed with the sentinel: index unwinds.
ReadSentinelReached ==
  /\ Last.op = "index"
  /\ ReadOutcome(Last).raised.ptype = PanicException_type_object
  /\ Last.exit = "unwind"

\* A string bound as __all__ gives TypeError and stays bound.
NonListKeptReached ==
  /\ Last.op = "index"
  /\ Last.obj = PyString("f", 0)
  /\ Last.ret # <<>>
  /\ pymodule.all = PyString("f", 0)

\* The operations that build or inspect records, and those the claim says
\* change the error indicator.
Builders ==
  {"new", "from_type", "from_value", "from_instance", "from", "clone_ref",
   "normalize", "matches", "is_instance"}

Changers ==
  {"fetch", "restore", "print", "print_and_set_sys_last_vars",
   "error_on_minusone"}

\* The interpreter has to call the constructor of r's type to normalize r,
\* and the constructor refuses the arguments.
ConstructorFails(r) ==
  /\ PyExceptionClass_Check(r.ptype)
  /\ ~(/\ r.pvalue.tag = "Value"
       /\ PyExceptionInstance_Check(r.pvalue.ob)
       /\ IsSubclass(r.pvalue.ob.cls, r.ptype.cls))
  /\ ~ConstructorAccepts(r.ptype.cls, r.pvalue.ob)

\* Of the program's calls, only the changers leave the indicator other
\* than they found it, error_on_minusone only for the code -1.
OnlyChangersChange ==
  (Last.op \notin {"", "raise"} /\ slot # Last.pre) =>
    \/ Last.op \in Changers \ {"error_on_minusone"}
    \/ Last.op = "error_on_minusone" /\ Last.arg[1].flags[1] = -1

NormalizeClearedPendingReached ==
  /\ Last.op = "normalize"
  /\ Last.arg[1].ptype = TypeObject("UnicodeDecodeError")
  /\ Last.arg[1].pvalue.tag = "None"
  /\ Last.pre.ptype = TypeObject("OSError")
  /\ slot = EmptySlot
  /\ err[1].ptype = TypeObject("TypeError")

\* clone_ref called a producer and is_instance answered with an error
\* pending, which is still pending.
InspectorsLeaveSlotReached ==
  /\ Last.op = "is_instance"
  /\ Last.ret = <<TRUE>>
  /\ Last.pre # EmptySlot
  /\ slot = Last.pre

\* Two interpreter objects that are equal as values: the same kind, class
\* and content, whichever allocation made them.
SameObject(a, b) == [a EXCEPT !.id = 0] = [b EXCEPT !.id = 0]

\* The record clone_ref was called on, the interpreter state it started
\* from, and the state it left for whatever is done with the clone.
CloneSource == Last.arg[1]

CloneStart == Before(Last)

CloneEnd == [clone_ref(CloneSource, CloneStart).h EXCEPT !.calls = <<>>]

\* C25: restoring the clone clone_ref returned puts into the error
\* indicator the same type, the same traceback and a value equal to the one
\* that restoring the record itself puts there (for a lazy value the same
\* tuple or single object), and normalizing the clone gives what
\* normalizing the record gives: the same exit, type, traceback, an equal
\* value and the same indicator.
C25_CloneRealisesTheSame ==
  (Last.op = "clone_ref" /\ Last.exit = "return") =>
    LET clone == Last.ret[1]
        A  == restore(CloneSource, CloneStart)
        B  == restore(clone, CloneEnd)
        NA == normalize(CloneSource, CloneStart)
        NB == normalize(clone, CloneEnd)
    IN /\ clone_ref(CloneSource, CloneStart).ret = Last.ret
       /\ A.exit = "return" /\ B.exit = "return"
       /\ A.h.slot.ptype = B.h.slot.ptype
       /\ A.h.slot.ptraceback = B.h.slot.ptraceback
       /\ SameObject(A.h.slot.pvalue, B.h.slot.pvalue)
       /\ NA.exit = NB.exit
       /\ NA.h.slot = NB.h.slot
       /\ NA.ret[1].ptype = NB.ret[1].ptype
       /\ NA.ret[1].ptraceback = NB.ret[1].ptraceback
       /\ NA.ret[1].pvalue.tag = NB.ret[1].pvalue.tag
       /\ SameObject(NA.ret[1].pvalue.ob, NB.ret[1].pvalue.ob)

\* The clone of a record whose value is a boxed tuple: restoring either
\* puts a tuple into the indicator.
C25_Witness ==
  /\ Last.op = "clone_ref"
  /\ Last.exit = "return"
  /\ CloneSource.pvalue.tag = "ToObject"
  /\ CloneSource.pvalue.boxed.rs = "tuple"
  /\ restore(CloneSource, CloneStart).h.slot.pvalue.kind = "tuple"
  /\ restore(Last.ret[1], CloneEnd).h.slot.pvalue.kind = "tuple"
  /\ err = Last.ret

\* The clone of a fetched record keeps its traceback, and the clone of a
\* record made from a Rust error its argument string.
CloneWithTracebackReached ==
  /\ Last.op = "clone_ref"
  /\ CloneSource.ptraceback # NULL
  /\ restore(Last.ret[1], CloneEnd).h.slot.ptraceback = CloneSource.ptraceback

CloneOfArgumentsReached ==
  /\ Last.op = "clone_ref"
  /\ CloneSource.pvalue.tag = "ToArgs"
  /\ restore(Last.ret[1], CloneEnd).h.slot.pvalue.kind = "str"
  /\ normalize(Last.ret[1], CloneEnd).ret[1].pvalue.ob.kind = "inst"

====
